---- MODULE Spec2Model ----
(***************************************************************************)
(* Security decision subsystem of the security platform:                   *)
(*   - ABAC policy engine            (lib/types/security.ts)               *)
(*   - request gate / rate limiter   (lib/middleware/security-middleware)  *)
(*   - security logger and pattern detector (security-logger)              *)
(*   - login route with account lockout and TOTP second factor             *)
(* JavaScript values are encoded as strings: a JS string is itself, the    *)
(* other values carry a leading '#'.                                       *)
(***************************************************************************)
EXTENDS Integers, Sequences, FiniteSets, TLC

VARIABLES
    policies,      \* ABACPolicyEngine.policies (each entry carries seq, its insertion rank)
    nextSeq,       \* number of policies inserted so far
    abacOps,       \* number of add/update/remove calls made
    lastEval,      \* the last evaluate call: context, policy list at the call, result
    now,           \* Date.now() / CURRENT_TIMESTAMP, in milliseconds
    ticks,         \* number of clock advances made
    events,        \* table security_events, in insertion order
    config,        \* finalConfig of createSecurityMiddleware
    rateLimitStore,\* the Map rateLimitStore: key <<ip, bucket>> -> [count, resetTime]
    blockedIPs,    \* the Set blockedIPs of the middleware module
    tasks,         \* the requests and calls in progress, one record per slot
    starts,        \* number of middleware requests (and direct generateAlert calls) started
    calls,         \* number of logSecurityEvent calls started
    logins,        \* number of login requests started
    users,         \* table users: id -> row
    userMfa,       \* table user_mfa: user id -> row
    sessions,      \* table sessions, in insertion order
    alerts,        \* the alerts generateAlert has built, in order
    actionLog,     \* the alert actions executeAlertActions has run, in order
    alertCallbacks,\* SecurityLogger.alertCallbacks, in registration order
    callbackLog,   \* per generated alert: the callbacks registered and those invoked
    lastCall       \* the last direct call of a library function: arguments and result

abacVars == <<policies, nextSeq, abacOps, lastEval>>
clockVars == <<now, ticks>>
gateVars == <<config, rateLimitStore, blockedIPs>>
logVars == <<events, alerts, actionLog>>
countVars == <<starts, calls, logins>>
taskVars == <<tasks, countVars>>
authVars == <<users, userMfa, sessions>>
callVars == <<lastCall>>
callbackVars == <<alertCallbacks, callbackLog>>

vars == <<abacVars, clockVars, gateVars, logVars, taskVars, authVars, callVars, callbackVars>>

-----------------------------------------------------------------------------
(* JavaScript values *)

Undefined == "#undefined"
JsTrue    == "#true"
JsFalse   == "#false"
\* a key the object literal does not declare
Absent    == "#absent"
\* the object { businessHours: true } and the object {}
ObjBusinessHours == "#object:businessHours"
ObjEmpty         == "#object"
\* the array ["confidential", "secret"]
ArrSensitive == "#array:confidential,secret"

ArrayElems == [a \in {ArrSensitive} |-> {"confidential", "secret"}]

IsArray(v)  == v \in DOMAIN ArrayElems
IsObject(v) == v \in {ObjBusinessHours, ObjEmpty}
IsString(v) == ~IsArray(v) /\ ~IsObject(v) /\ v \notin {Undefined, JsTrue, JsFalse, Absent}

\* String.prototype.split("|") on the strings of the model that contain '|'
PipeSplit == [s \in {"read|write", "write|delete", "confidential|secret"} |->
                CASE s = "read|write" -> {"read", "write"}
                  [] s = "write|delete" -> {"write", "delete"}
                  [] s = "confidential|secret" -> {"confidential", "secret"}]

IncludesPipe(s) == s \in DOMAIN PipeSplit
Split(s) == IF IncludesPipe(s) THEN PipeSplit[s] ELSE {s}

\* Object.entries(o): the keys the literal declares
Entries(o) == {k \in DOMAIN o : o[k] # Absent}
\* o[key] for a key that may be missing
Get(o, k) == IF k \in DOMAIN o /\ o[k] # Absent THEN o[k] ELSE Undefined

-----------------------------------------------------------------------------
(* ABAC policy engine: lib/types/security.ts *)

NoSubject  == [role |-> Absent, department |-> Absent]
NoResource == [type |-> Absent, classification |-> Absent]
NoEnv      == [mfaVerified |-> Absent, ipAddress |-> Absent, time |-> Absent, location |-> Absent]

Policy(id, subject, resource, action, environment, effect, priority) ==
    [id |-> id, name |-> id, subject |-> subject, resource |-> resource, action |-> action,
     environment |-> environment, effect |-> effect, priority |-> priority, seq |-> 0]

defaultPolicies == <<
    Policy("admin-full-access", [NoSubject EXCEPT !.role = "admin"],
           [NoResource EXCEPT !.type = "*"], "*", NoEnv, "allow", 100),
    Policy("user-own-data", [NoSubject EXCEPT !.role = "user"],
           [NoResource EXCEPT !.type = "user-data"], "read|write", NoEnv, "allow", 50),
    Policy("mfa-required-sensitive", NoSubject,
           [NoResource EXCEPT !.classification = "confidential|secret"], "write|delete",
           [NoEnv EXCEPT !.mfaVerified = JsFalse], "deny", 90),
    Policy("business-hours-only", [NoSubject EXCEPT !.role = "user"],
           [NoResource EXCEPT !.classification = "confidential"], "write|delete",
           NoEnv, "deny", 70),
    Policy("block-suspicious-ip", NoSubject,
           [NoResource EXCEPT !.type = "*"], "*", NoEnv, "deny", 95) >>

\* extractDepartmentFromEmail
extractDepartmentFromEmail(domain) ==
    IF domain = "security.com" THEN "security"
    ELSE IF domain = "admin.com" THEN "admin"
    ELSE "general"

\* getUserAttributes: the email is kept as its domain part
getUserAttributes(user) ==
    [id |-> user.id, email |-> user.emailDomain, role |-> user.role,
     mfaEnabled |-> user.mfaEnabled,
     department |-> extractDepartmentFromEmail(user.emailDomain)]

matchesAttributes(policyAttrs, contextAttrs) ==
    \A key \in Entries(policyAttrs) :
        LET value == policyAttrs[key]
            contextValue == Get(contextAttrs, key)
        IN  \/ value = "*"
            \/ /\ value # "*"
               /\ IF IsString(value) /\ IncludesPipe(value)
                  THEN contextValue \in Split(value)
                  ELSE IF IsArray(value)
                       THEN contextValue \in ArrayElems[value]
                       ELSE value = contextValue

matchesAction(policyAction, contextAction) ==
    IF policyAction = "*" THEN TRUE
    ELSE IF IncludesPipe(policyAction) THEN contextAction \in Split(policyAction)
    ELSE policyAction = contextAction

\* Business hours: Monday-Friday, 9 AM - 5 PM
matchesTimeCondition(timeCondition, currentTime) ==
    IF timeCondition = ObjBusinessHours
    THEN currentTime.day >= 1 /\ currentTime.day <= 5 /\ currentTime.hour >= 9 /\ currentTime.hour < 17
    ELSE TRUE

\* new RegExp(pattern.replace(/\*/g, ".*")).test(ip), for the patterns of the model
GlobMatches == [p \in {"*", "10.0.0.*"} |->
                  CASE p = "*" -> {"10.0.0.5", "10.0.0.6", "192.168.1.9", "127.0.0.1"}
                    [] p = "10.0.0.*" -> {"10.0.0.5", "10.0.0.6"}]

matchesIPPattern(pattern, ip) ==
    IF ip = Undefined THEN FALSE
    ELSE IF pattern \in DOMAIN GlobMatches THEN ip \in GlobMatches[pattern]
    ELSE pattern = ip

matchesEnvironment(policyEnv, contextEnv) ==
    \A key \in Entries(policyEnv) :
        LET value == policyEnv[key]
            contextValue == Get(contextEnv, key)
        IN  IF key = "time" /\ IsObject(value)
            THEN matchesTimeCondition(value, contextEnv.time)
            ELSE IF key = "ipAddress" /\ IsString(value)
                 THEN matchesIPPattern(value, contextValue)
                 ELSE value = contextValue

matchesPolicy(policy, context) ==
    /\ matchesAttributes(policy.subject, getUserAttributes(context.user))
    /\ matchesAttributes(policy.resource, context.resource)
    /\ matchesAction(policy.action, context.action)
    /\ matchesEnvironment(policy.environment, context.environment)

\* Array.prototype.sort((a, b) => b.priority - a.priority): a stable sort
InsertByPriority(sorted, p) ==
    LET k == Cardinality({i \in 1..Len(sorted) : sorted[i].priority >= p.priority})
    IN  SubSeq(sorted, 1, k) \o <<p>> \o SubSeq(sorted, k + 1, Len(sorted))

RECURSIVE SortFrom(_, _, _)
SortFrom(list, i, acc) ==
    IF i > Len(list) THEN acc
    ELSE SortFrom(list, i + 1, InsertByPriority(acc, list[i]))

SortByPriority(list) == SortFrom(list, 1, <<>>)

NoMatchReason == [kind |-> "No matching policies found", policy |-> "-"]

\* the loop of evaluate from index i on
RECURSIVE EvaluateFrom(_, _, _, _, _, _)
EvaluateFrom(ps, context, i, matchedPolicies, finalDecision, reason) ==
    IF i > Len(ps)
    THEN [decision |-> finalDecision, matchedPolicies |-> matchedPolicies, reason |-> reason]
    ELSE IF matchesPolicy(ps[i], context)
         THEN IF ps[i].effect = "deny"
              THEN [decision |-> "deny",
                    matchedPolicies |-> Append(matchedPolicies, ps[i]),
                    reason |-> [kind |-> "Denied by policy", policy |-> ps[i].name]]
              ELSE IF ps[i].effect = "allow" /\ finalDecision # "deny"
                   THEN EvaluateFrom(ps, context, i + 1, Append(matchedPolicies, ps[i]), "allow",
                                     [kind |-> "Allowed by policy", policy |-> ps[i].name])
                   ELSE EvaluateFrom(ps, context, i + 1, Append(matchedPolicies, ps[i]),
                                     finalDecision, reason)
         ELSE EvaluateFrom(ps, context, i + 1, matchedPolicies, finalDecision, reason)

\* first-applicable combining: the first matching policy decides
evaluate_FirstApplicable(ps, context) ==
    LET hits == {i \in 1..Len(ps) : matchesPolicy(ps[i], context)}
    IN  IF hits = {} THEN [decision |-> "deny", matchedPolicies |-> <<>>, reason |-> NoMatchReason]
        ELSE LET f == CHOOSE i \in hits : \A j \in hits : i <= j
             IN  [decision |-> ps[f].effect, matchedPolicies |-> <<ps[f]>>,
                  reason |-> [kind |-> IF ps[f].effect = "deny" THEN "Denied by policy"
                                       ELSE "Allowed by policy", policy |-> ps[f].name]]

\* a loop without the break: every matching policy is collected
evaluate_NoBreak(ps, context) ==
    LET hits == SelectSeq(ps, LAMBDA p : matchesPolicy(p, context))
        denies == SelectSeq(hits, LAMBDA p : p.effect = "deny")
    IN  IF hits = <<>> THEN [decision |-> "deny", matchedPolicies |-> <<>>, reason |-> NoMatchReason]
        ELSE IF denies # <<>>
             THEN [decision |-> "deny", matchedPolicies |-> hits,
                   reason |-> [kind |-> "Denied by policy", policy |-> denies[1].name]]
             ELSE [decision |-> "deny", matchedPolicies |-> hits, reason |-> NoMatchReason]

evaluate(ps, context) == EvaluateFrom(ps, context, 1, <<>>, "deny", NoMatchReason)

-----------------------------------------------------------------------------
(* Time *)

MsPerMinute == 60000
MsPerHour   == 3600000

\* Math.ceil(a / b) for b > 0
CeilDiv(a, b) == -((-a) \div b)

-----------------------------------------------------------------------------
(* Table security_events and the route /api/security/events *)

Null == "#null"

\* x || null (SecurityEventModel.create)
OrNull(x) == IF x \in {Undefined, ""} THEN Null ELSE x

\* the argument of logEvent / SecurityEventModel.create
EventData(type, user, ip, ua, reason) ==
    [event_type |-> type, user_id |-> user, ip_address |-> ip, user_agent |-> ua,
     reason |-> reason]

\* SecurityEventModel.create: the row INSERT ... RETURNING * gives back
CreateRow(eventData, at) ==
    [event_type |-> eventData.event_type,
     user_id |-> OrNull(eventData.user_id),
     ip_address |-> OrNull(eventData.ip_address),
     user_agent |-> OrNull(eventData.user_agent),
     reason |-> eventData.reason,
     timestamp |-> at]

\* POST /api/security/events called by the logger: the route fills in the
\* caller's address and user agent where the event has none
RoutePOSTData(eventData) ==
    [eventData EXCEPT
        !.ip_address = IF eventData.ip_address \in {Undefined, ""} THEN "unknown" ELSE @,
        !.user_agent = IF eventData.user_agent \in {Undefined, ""} THEN "unknown" ELSE @]

\* a POST response that is the row itself
RoutePOSTBody_Bare(row) == row

\* the body of the POST response: NextResponse.json({ event })
RoutePOSTBody(row) == [event |-> row]

\* ORDER BY timestamp DESC LIMIT limit, over rows kept in timestamp order
LastRows(rows, limit) ==
    IF Len(rows) <= limit THEN rows ELSE SubSeq(rows, Len(rows) - limit + 1, Len(rows))

getRecentEvents(table, limit) == LastRows(table, limit)
getEventsByType(table, eventType, limit) ==
    LastRows(SelectSeq(table, LAMBDA e : e.event_type = eventType), limit)

\* a GET response that is the array of rows itself
RouteGETBody_Array(table, type, limit) ==
    LET rows == IF type # Null THEN getEventsByType(table, type, limit)
                ELSE getRecentEvents(table, limit)
    IN  [isArray |-> TRUE, items |-> rows, events |-> rows]

\* the body of the GET response: NextResponse.json({ events }), an object
RouteGETBody(table, type, limit) ==
    [isArray |-> FALSE,
     items |-> <<>>,
     events |-> IF type # Null THEN getEventsByType(table, type, limit)
                ELSE getRecentEvents(table, limit)]

-----------------------------------------------------------------------------
(* SecurityLogger: patterns, checkPattern, generateAlert *)

Pattern(name, threshold, timeWindow, severity, actions) ==
    [pattern |-> name, threshold |-> threshold, timeWindow |-> timeWindow,
     severity |-> severity, actions |-> actions]

patterns == <<
    Pattern("failed_login_burst", 5, 10, "high",
            <<"block_ip", "notify_admin", "increase_monitoring">>),
    Pattern("privilege_escalation", 3, 5, "critical",
            <<"block_user", "notify_admin", "audit_permissions">>),
    Pattern("suspicious_user_agent", 10, 30, "medium",
            <<"increase_monitoring", "require_captcha">>),
    Pattern("rapid_requests", 100, 5, "high",
            <<"rate_limit", "block_ip", "notify_admin">>),
    Pattern("off_hours_access", 1, 60, "medium",
            <<"require_mfa", "notify_admin">>) >>

\* event.key for a key the object may not have
Field(o, k) == IF k \in DOMAIN o THEN o[k] ELSE Undefined
\* a value that `if (x)` takes as true, for the string-coded values
Truthy(v) == v \notin {Undefined, Null, JsFalse, ""}

\* user agents the model uses, and whether one of the suspicious names occurs in them
UserAgents == {"Mozilla/5.0", "curl/8.0"}
isSuspiciousAgent(ua) == ua = "curl/8.0"

\* whether checkPattern reaches its fetch for this pattern and event
NeedsFetch(pattern, event) ==
    CASE pattern.pattern = "failed_login_burst" ->
            Field(event, "event_type") = "failed_login" /\ Truthy(Field(event, "ip_address"))
      [] pattern.pattern = "privilege_escalation" ->
            /\ Field(event, "event_type") = "access_denied"
            /\ Field(event, "reason") = "insufficient_permissions"
      [] pattern.pattern = "suspicious_user_agent" ->
            Truthy(Field(event, "user_agent")) /\ isSuspiciousAgent(Field(event, "user_agent"))
      [] pattern.pattern = "rapid_requests" -> Truthy(Field(event, "ip_address"))
      [] OTHER -> FALSE

\* the query string of the fetch of each pattern: type and limit
FetchType(pattern) == IF pattern.pattern = "failed_login_burst" THEN "failed_login" ELSE Null
FetchLimit(pattern) ==
    CASE pattern.pattern = "failed_login_burst" -> 100
      [] pattern.pattern = "privilege_escalation" -> 50
      [] pattern.pattern = "suspicious_user_agent" -> 100
      [] pattern.pattern = "rapid_requests" -> 200
      [] OTHER -> 50

\* the filter callback of each pattern
PatternFilter(pattern, event, e, timeWindow) ==
    IF pattern.pattern = "privilege_escalation"
    THEN /\ e.user_id = Field(event, "user_id")
         /\ e.event_type = "access_denied"
         /\ e.timestamp > timeWindow
    ELSE /\ e.ip_address = Field(event, "ip_address")
         /\ e.timestamp > timeWindow

\* new Date(timestamp).getHours(), with the local zone at UTC
getHours(timestamp) == (timestamp \div MsPerHour) % 24

\* checkPattern(pattern, event): event is what logEvent parsed from the POST
\* response; fetched is "ok", "notok" (response.ok false) or "throw"; body is the
\* parsed body of the GET response. Any exception is caught and gives false.
checkPattern(pattern, event, fetched, body, clock) ==
    LET timeWindow == clock - pattern.timeWindow * MsPerMinute
    IN  IF pattern.pattern = "off_hours_access"
        THEN /\ "timestamp" \in DOMAIN event
             /\ LET hour == getHours(event.timestamp)
                IN  (hour < 8 \/ hour > 18) /\ Field(event, "event_type") = "successful_login"
        ELSE /\ NeedsFetch(pattern, event)
             /\ fetched = "ok"
             \* body.filter(...) on a body that is no array throws a TypeError
             /\ body.isArray
             /\ Cardinality({i \in 1..Len(body.items) :
                                PatternFilter(pattern, event, body.items[i], timeWindow)})
                    >= pattern.threshold

mapPatternToAlertType(pattern) ==
    CASE pattern = "failed_login_burst" -> "brute_force"
      [] pattern = "privilege_escalation" -> "privilege_escalation"
      [] OTHER -> "suspicious_pattern"

\* x || undefined
OrUndefined(x) == IF Truthy(x) THEN x ELSE Undefined

\* the alert generateAlert builds
MakeAlert(pattern, event) ==
    [type |-> mapPatternToAlertType(pattern.pattern),
     pattern |-> pattern.pattern,
     severity |-> pattern.severity,
     affectedUser |-> OrUndefined(Field(event, "user_id")),
     sourceIP |-> OrUndefined(Field(event, "ip_address")),
     actions |-> pattern.actions]

\* the callbacks an application registers: one that returns, one that throws
Callbacks == {[id |-> "dashboard", throws |-> FALSE], [id |-> "faulty", throws |-> TRUE]}

\* forEach without the try/catch around callback(alert): the first exception ends it
Invoked_UntilThrow(callbacks) ==
    LET stops == {i \in 1..Len(callbacks) : callbacks[i].throws}
        last == IF stops = {} THEN Len(callbacks)
                ELSE CHOOSE i \in stops : \A j \in stops : i <= j
    IN  [i \in 1..last |-> [callback |-> callbacks[i].id, caught |-> FALSE]]

\* this.alertCallbacks.forEach: each callback is called inside try/catch, so an
\* exception of one is caught (console.error) and the next is called
Invoked(callbacks) ==
    [i \in 1..Len(callbacks) |-> [callback |-> callbacks[i].id, caught |-> callbacks[i].throws]]

\* what generateAlert leaves of its notification: the callbacks registered at
\* that moment and the calls made
Notified(callbacks) == [registered |-> callbacks, invoked |-> Invoked(callbacks)]

\* the event blockIP, blockUser and notifyAdmins log; "-" for the actions that log nothing
ActionEvent(action, alert) ==
    CASE action = "block_ip" ->
            EventData("ip_blocked", Undefined, alert.sourceIP, Undefined, "security_alert")
      [] action = "block_user" /\ Truthy(alert.affectedUser) ->
            EventData("user_blocked", alert.affectedUser, Undefined, Undefined, "security_alert")
      [] action = "notify_admin" ->
            EventData("admin_notification_sent", Undefined, Undefined, Undefined, Undefined)
      [] OTHER -> EventData("-", Undefined, Undefined, Undefined, Undefined)

-----------------------------------------------------------------------------
(* Requests and calls in progress *)

MaxStarts == 2
MaxCalls  == 5
MaxLogins == 6
MaxTicks  == 2
MaxCallbacks == 2

\* the slots of the specification at hand
TaskIds == DOMAIN tasks

NoData  == EventData("-", Undefined, Undefined, Undefined, Undefined)
NoRow   == CreateRow(NoData, 0)
NoAlert == [type |-> "-", pattern |-> "-", severity |-> "-", affectedUser |-> Undefined,
            sourceIP |-> Undefined, actions |-> <<>>]

\* a call of logEvent (fn = "logEvent") or of executeAlertActions (fn = "actions")
\* event is what analyzePatterns is handed
NoEvent == RoutePOSTBody(NoRow)
LogEventFrame(eventData) ==
    [fn |-> "logEvent", pc |-> "post", data |-> eventData, row |-> NoRow, event |-> NoEvent,
     i |-> 1, alert |-> NoAlert]
ActionsFrame(alert) ==
    [fn |-> "actions", pc |-> "run", data |-> NoData, row |-> NoRow, event |-> NoEvent,
     i |-> 1, alert |-> alert]

\* the locals of a login request: the body, the user row findByEmail returned,
\* what the MFA check read and whether the code it got verifies
NoUser == [id |-> Null, email |-> "-", password_hash |-> "-", failed_login_attempts |-> 0,
           locked_until |-> 0]
NoCode == [secret |-> "", time |-> 0]
NoLogin == [email |-> "-", password |-> "-", mfaCode |-> NoCode, user |-> NoUser,
            mfaEnabled |-> FALSE, codeValid |-> FALSE, session |-> FALSE]

IdleTask ==
    [kind |-> "idle", pc |-> "idle", ip |-> "-", req |-> "-", stack |-> <<>>,
     outcome |-> "none", retryAfter |-> 0, bucket |-> 0, count |-> 0, d |-> 1,
     wasBlocked |-> FALSE, threw |-> FALSE, burst |-> FALSE, logged |-> NoRow,
     status |-> 0, login |-> NoLogin, alertsBefore |-> 0, analysed |-> NoRow,
     fetchFailed |-> {}]

Free(t) == tasks[t].pc \in {"idle", "done"}
\* the slot a new request or call takes: the lowest free one
FreeSlot(t) == Free(t) /\ \A u \in TaskIds : u < t => ~Free(u)

Push(t, frame) == [tasks[t] EXCEPT !.stack = Append(@, frame)]
Top(t) == tasks[t].stack[Len(tasks[t].stack)]
Pop(stack) == SubSeq(stack, 1, Len(stack) - 1)

\* the clock advances by d milliseconds; an await lasts milliseconds, so only a
\* step of one millisecond is taken while a request or call is in progress
Tick(d) ==
    /\ ticks < MaxTicks
    /\ d > 1 => \A t \in TaskIds : Free(t)
    /\ now' = now + d
    /\ ticks' = ticks + 1
    /\ UNCHANGED <<callVars, callbackVars, authVars, abacVars, gateVars, logVars, taskVars>>

-----------------------------------------------------------------------------
(* SecurityLogger.logEvent, analyzePatterns, generateAlert, executeAlertActions *)

\* whether checkPattern can alert without a fetch (off_hours_access)
AlertsUnfetched(pattern, event) ==
    pattern.pattern = "off_hours_access" /\ checkPattern(pattern, event, "ok", <<>>, 0)

\* analyzePatterns runs on without a suspension over the patterns that neither
\* fetch nor alert: the first index from i on at which it fetches or alerts,
\* Len(patterns) + 1 when there is none
RECURSIVE NextStop(_, _)
NextStop(event, i) ==
    IF i > Len(patterns) THEN i
    ELSE IF NeedsFetch(patterns[i], event) \/ AlertsUnfetched(patterns[i], event) THEN i
    ELSE NextStop(event, i + 1)

\* the stack once the logEvent call f has gone on to index i of its loop: at
\* the end of the loop logEvent returns (console.log, sendToExternalSystems)
Resume(below, f, i) ==
    LET k == NextStop(f.event, i)
    IN  IF k > Len(patterns) THEN below
        ELSE Append(below, [f EXCEPT !.pc = "analyze", !.i = k])

\* a failed query ending analyzePatterns: checkPattern without its try/catch
\* and its response.ok test
Continue_AbortOnQueryFailure(below, f, fetched) ==
    IF fetched = "ok" THEN Resume(below, f, f.i + 1) ELSE below

\* checkPattern returned false, whatever its fetch gave (not ok: return false;
\* an exception: caught): the loop of analyzePatterns goes on to the next pattern
Continue(below, f, fetched) == Resume(below, f, f.i + 1)

\* logEvent going on to analyzePatterns with the event it could not record
AfterFailedPost_Analyses(below, f) == Resume(below, [f EXCEPT !.event = f.data], 1)

\* the POST failed (fetch rejected, or response.ok false and the throw of line
\* 112): the catch of logEvent logs to the console and the call returns
AfterFailedPost(below, f) == below

\* one step of the call on top of the stack of task t
LoggerStep(t) ==
    /\ tasks[t].stack # <<>>
    /\ LET f == Top(t)
           below == Pop(tasks[t].stack)
       IN  CASE f.fn = "logEvent" /\ f.pc = "post" ->
                  \* await fetch(POST): the route inserts the row, or the call fails
                  \* and the catch of logEvent ends the call
                  \E fetched \in {"ok", "fail"} :
                     IF fetched = "ok"
                     THEN LET row == CreateRow(RoutePOSTData(f.data), now)
                          IN  /\ events' = Append(events, row)
                              /\ tasks' = [tasks EXCEPT
                                    ![t].stack = Resume(below, [f EXCEPT !.row = row,
                                                        !.event = RoutePOSTBody(row)], 1),
                                    ![t].logged = IF below = <<>> THEN row ELSE @]
                              /\ UNCHANGED <<alerts, actionLog, callbackLog>>
                     ELSE /\ tasks' = [tasks EXCEPT ![t].stack = AfterFailedPost(below, f)]
                          /\ UNCHANGED <<events, alerts, actionLog, callbackLog>>
             [] f.fn = "logEvent" /\ f.pc = "analyze" /\ f.i <= Len(patterns) ->
                  \* analyzePatterns: checkPattern, then generateAlert
                  LET pattern == patterns[f.i]
                      event == f.event
                      next == [f EXCEPT !.i = f.i + 1]
                  IN  \E fetched \in (IF NeedsFetch(pattern, event)
                                      THEN {"ok", "notok", "throw"} ELSE {"ok"}) :
                         LET body == RouteGETBody(events, FetchType(pattern), FetchLimit(pattern))
                         IN  IF checkPattern(pattern, event, fetched, body, now)
                             THEN /\ alerts' = Append(alerts, MakeAlert(pattern, event))
                                  /\ callbackLog' = Append(callbackLog, Notified(alertCallbacks))
                                  /\ tasks' = [tasks EXCEPT ![t].stack =
                                        below \o <<next, ActionsFrame(MakeAlert(pattern, event))>>]
                                  /\ UNCHANGED <<events, actionLog>>
                             ELSE /\ tasks' = [tasks EXCEPT
                                        ![t].stack = Continue(below, f, fetched),
                                        ![t].fetchFailed =
                                            IF below = <<>> /\ fetched # "ok"
                                            THEN @ \cup {pattern.pattern} ELSE @]
                                  /\ UNCHANGED <<events, alerts, actionLog, callbackLog>>
             [] f.fn = "logEvent" /\ f.pc = "analyze" /\ f.i > Len(patterns) ->
                  \* back from executeAlertActions for the last pattern: logEvent returns
                  /\ tasks' = [tasks EXCEPT ![t].stack = below]
                  /\ UNCHANGED <<events, alerts, actionLog, callbackLog>>
             [] f.fn = "actions" /\ f.i <= Len(f.alert.actions) ->
                  \* executeAlertActions: one action of the list
                  LET action == f.alert.actions[f.i]
                      ev == ActionEvent(action, f.alert)
                      next == [f EXCEPT !.i = f.i + 1]
                  IN  /\ actionLog' = Append(actionLog,
                            [action |-> action, sourceIP |-> f.alert.sourceIP,
                             affectedUser |-> f.alert.affectedUser])
                      /\ tasks' = [tasks EXCEPT ![t].stack =
                            IF ev.event_type # "-"
                            THEN below \o <<next, LogEventFrame(ev)>>
                            ELSE Append(below, next)]
                      /\ UNCHANGED <<events, alerts, callbackLog>>
             [] f.fn = "actions" /\ f.i > Len(f.alert.actions) ->
                  /\ tasks' = [tasks EXCEPT ![t].stack = below]
                  /\ UNCHANGED <<events, alerts, actionLog, callbackLog>>
    /\ UNCHANGED <<callVars, alertCallbacks, authVars, abacVars, clockVars, gateVars, countVars>>

\* logSecurityEvent(eventData): a caller of the logger
LogSecurityEvent(t, eventData) ==
    /\ FreeSlot(t)
    /\ calls < MaxCalls
    /\ calls' = calls + 1
    /\ tasks' = [tasks EXCEPT ![t] =
            [IdleTask EXCEPT !.kind = "log", !.pc = "logging", !.ip = eventData.ip_address,
                             !.alertsBefore = Len(alerts),
                             !.stack = <<LogEventFrame(eventData)>>]]
    /\ UNCHANGED <<callVars, callbackVars, authVars, abacVars, clockVars, gateVars, logVars, starts, logins>>

\* the caller of logSecurityEvent gets its promise resolved
LogSecurityEventReturn(t) ==
    /\ tasks[t].kind \in {"log", "alert", "analyze"}
    /\ tasks[t].pc = "logging"
    /\ tasks[t].stack = <<>>
    /\ tasks' = [tasks EXCEPT ![t].pc = "done"]
    /\ UNCHANGED <<callVars, callbackVars, authVars, abacVars, clockVars, gateVars, logVars, countVars>>

\* analyzePatterns(event) called on its own with an event row
AnalyzePatterns(t, event) ==
    /\ FreeSlot(t)
    /\ starts < MaxStarts
    /\ starts' = starts + 1
    /\ tasks' = [tasks EXCEPT ![t] =
            [IdleTask EXCEPT !.kind = "analyze", !.pc = "logging",
                             !.ip = Field(event, "ip_address"),
                             !.alertsBefore = Len(alerts),
                             !.analysed = event,
                             !.stack = Resume(<<>>, [LogEventFrame(NoData) EXCEPT
                                                        !.row = event, !.event = event], 1)]]
    /\ UNCHANGED <<callVars, callbackVars, authVars, abacVars, clockVars, gateVars, logVars, calls, logins>>

\* onAlert(callback)
onAlert(callback) ==
    /\ Len(alertCallbacks) < MaxCallbacks
    /\ alertCallbacks' = Append(alertCallbacks, callback)
    /\ UNCHANGED <<callVars, callbackLog, authVars, abacVars, clockVars, gateVars, logVars, taskVars>>

\* generateAlert(pattern, event) called on its own with an event row
GenerateAlert(t, pattern, event) ==
    /\ FreeSlot(t)
    /\ starts < MaxStarts
    /\ starts' = starts + 1
    /\ alerts' = Append(alerts, MakeAlert(pattern, event))
    /\ callbackLog' = Append(callbackLog, Notified(alertCallbacks))
    /\ tasks' = [tasks EXCEPT ![t] =
            [IdleTask EXCEPT !.kind = "alert", !.pc = "logging",
                             !.ip = Field(event, "ip_address"),
                             !.stack = <<ActionsFrame(MakeAlert(pattern, event))>>]]
    /\ UNCHANGED <<callVars, alertCallbacks, authVars, abacVars, clockVars, gateVars, events, actionLog, calls, logins>>

-----------------------------------------------------------------------------
(* The security middleware: lib/middleware/security-middleware.ts *)

\* rateLimitRequests of the configuration, scaled down from 100
Ceiling == 1

IPs == {"10.0.0.5", "127.0.0.1"}

\* createSecurityMiddleware({ ... }) as lib/security/certificate-validator.ts calls it,
\* merged over defaultConfig; configured is the blockedIPs list
DeployedConfig(configured) ==
    [enableLogging |-> TRUE, enableRateLimit |-> TRUE, enableIPBlocking |-> TRUE,
     rateLimitRequests |-> Ceiling, rateLimitWindow |-> 15,
     hasBlockedIPs |-> TRUE, blockedIPs |-> configured,
     hasTrustedIPs |-> TRUE, trustedIPs |-> {"127.0.0.1", "::1"}]

\* a configuration object whose blockedIPs or trustedIPs is undefined
\* ({ ...defaultConfig, ...config } keeps an explicit undefined)
FaultyConfigs ==
    {[DeployedConfig({}) EXCEPT !.hasBlockedIPs = FALSE],
     [DeployedConfig({}) EXCEPT !.hasTrustedIPs = FALSE]}

\* the requests of the model: a page, a sensitive endpoint, a query string
\* with a quote in it
RequestKinds == {"page", "api", "sqli"}
userAgentOf(req) == IF req = "bot" THEN "curl/8.0" ELSE "Mozilla/5.0"
isSensitive(req) == req = "api"

\* detectSuspiciousActivity: the four checks in order, with the event each logs
DetectChecks == <<"sql_injection_attempt", "xss_attempt", "directory_traversal_attempt",
                  "bot_activity_detected">>
Detects(req, d) ==
    CASE d = 1 -> req = "sqli"
      [] d = 2 -> FALSE
      [] d = 3 -> FALSE
      [] d = 4 -> req = "bot"

\* the number of login_failed rows for ip recorded in the last `minutes` minutes
FailedLogins(ip, clock, minutes) ==
    Cardinality({i \in 1..Len(events) :
        /\ events[i].event_type = "login_failed"
        /\ events[i].ip_address = ip
        /\ events[i].timestamp > clock - minutes * MsPerMinute})

MwEvent(type, ip, req, reason) == EventData(type, Undefined, ip, userAgentOf(req), reason)

\* blockedIPs.has(ip) only
IsBlocked_DynamicOnly(ip) == ip \in blockedIPs

\* blockedIPs.has(ip) || finalConfig.blockedIPs.includes(ip), for a configuration
\* whose list is defined
IsBlocked(ip) == ip \in blockedIPs \/ ip \in config.blockedIPs

\* line 39 throws a TypeError when the list is undefined and has(ip) is false
BlockCheckThrows(ip) ==
    config.enableIPBlocking /\ ip \notin blockedIPs /\ ~config.hasBlockedIPs
\* line 54 throws a TypeError when the trusted list is undefined
TrustCheckThrows == config.enableRateLimit /\ ~config.hasTrustedIPs

WindowMs == config.rateLimitWindow * 60 * 1000
BucketOf(clock) == clock \div WindowMs
RateKey(ip, clock) == <<ip, BucketOf(clock)>>

\* a counter read that never sees the stored entry
Current_AlwaysNew(key) == [count |-> 0, resetTime |-> now + WindowMs]

\* rateLimitStore.get(key) || { count: 0, resetTime: Date.now() + window }
Current(key) ==
    IF key \in DOMAIN rateLimitStore THEN rateLimitStore[key]
    ELSE [count |-> 0, resetTime |-> now + WindowMs]

OverLimit(count) == count > config.rateLimitRequests

\* detectSuspiciousActivity from check d on: the task after the next await, or
\* after return NextResponse.next()
Detect(task, d) ==
    LET hits == {k \in d..Len(DetectChecks) : Detects(task.req, k)}
    IN  IF hits = {}
        THEN [task EXCEPT !.pc = "done", !.outcome = "Admitted"]
        ELSE LET k == CHOOSE x \in hits : \A y \in hits : x <= y
             IN  [task EXCEPT !.pc = "detect", !.d = k + 1,
                              !.stack = <<LogEventFrame(
                                  MwEvent(DetectChecks[k], task.ip, task.req, Undefined))>>]

\* lines 88-112: the request log, then detectSuspiciousActivity
LogRequest(task) ==
    IF config.enableLogging /\ isSensitive(task.req)
    THEN [task EXCEPT !.pc = "logged",
                      !.stack = <<LogEventFrame(MwEvent("api_request", task.ip, task.req, Undefined))>>]
    ELSE Detect(task, 1)

\* the catch block up to its await
Catch(task) ==
    [task EXCEPT !.pc = "catch", !.threw = TRUE,
                 !.stack = <<LogEventFrame(
                     MwEvent("middleware_error", task.ip, task.req, "TypeError"))>>]

\* securityMiddleware(request) up to its first await or its return
MwStart(t, ip, req) ==
    /\ FreeSlot(t)
    /\ starts < MaxStarts
    /\ starts' = starts + 1
    /\ LET task == [IdleTask EXCEPT !.kind = "mw", !.ip = ip, !.req = req,
                                    !.wasBlocked = ip \in blockedIPs \/
                                        (config.hasBlockedIPs /\ ip \in config.blockedIPs),
                                    !.burst = FailedLogins(ip, now, 9) >= 5]
           key == RateKey(ip, now)
           current == [Current(key) EXCEPT !.count = @ + 1]
       IN  IF BlockCheckThrows(ip)
           THEN /\ tasks' = [tasks EXCEPT ![t] = Catch(task)]
                /\ UNCHANGED rateLimitStore
           ELSE IF config.enableIPBlocking /\ IsBlocked(ip)
           THEN /\ tasks' = [tasks EXCEPT ![t] =
                       [task EXCEPT !.pc = "blocked",
                                    !.stack = <<LogEventFrame(MwEvent(
                                        "blocked_ip_access_attempt", ip, req, "ip_blocked"))>>]]
                /\ UNCHANGED rateLimitStore
           ELSE IF TrustCheckThrows
           THEN /\ tasks' = [tasks EXCEPT ![t] = Catch(task)]
                /\ UNCHANGED rateLimitStore
           ELSE IF config.enableRateLimit /\ ip \notin config.trustedIPs
           THEN /\ rateLimitStore' = (key :> current) @@ rateLimitStore
                /\ LET counted == [task EXCEPT !.bucket = key[2], !.count = current.count]
                   IN  tasks' = [tasks EXCEPT ![t] =
                          IF OverLimit(current.count)
                          THEN [counted EXCEPT !.pc = "limited",
                                       !.stack = <<LogEventFrame(MwEvent(
                                           "rate_limit_exceeded", ip, req, Undefined))>>]
                          ELSE LogRequest(counted)]
           ELSE /\ tasks' = [tasks EXCEPT ![t] = LogRequest(task)]
                /\ UNCHANGED rateLimitStore
    /\ UNCHANGED <<callVars, callbackVars, authVars, abacVars, clockVars, config, blockedIPs, logVars, calls, logins>>

\* the middleware after an awaited logEvent has returned
MwResume(t) ==
    /\ tasks[t].kind = "mw"
    /\ tasks[t].pc \notin {"done", "idle"}
    /\ tasks[t].stack = <<>>
    /\ LET task == tasks[t]
       IN  tasks' = [tasks EXCEPT ![t] =
              CASE task.pc = "blocked" -> [task EXCEPT !.pc = "done", !.outcome = "Blocked"]
                [] task.pc = "limited" ->
                      [task EXCEPT !.pc = "done", !.outcome = "RateLimited",
                          !.retryAfter = CeilDiv(
                              rateLimitStore[<<task.ip, task.bucket>>].resetTime - now, 1000)]
                [] task.pc = "logged" -> Detect(task, 1)
                [] task.pc = "detect" -> Detect(task, task.d)
                [] task.pc = "catch" -> [task EXCEPT !.pc = "done", !.outcome = "Admitted"]]
    /\ UNCHANGED <<callVars, callbackVars, authVars, abacVars, clockVars, gateVars, logVars, countVars>>

\* the exported blockIP and unblockIP
blockIP(ip) ==
    /\ blockedIPs' = blockedIPs \cup {ip}
    /\ UNCHANGED <<callVars, callbackVars, authVars, abacVars, clockVars, config, rateLimitStore, logVars, taskVars>>

unblockIP(ip) ==
    /\ blockedIPs' = blockedIPs \ {ip}
    /\ UNCHANGED <<callVars, callbackVars, authVars, abacVars, clockVars, config, rateLimitStore, logVars, taskVars>>

-----------------------------------------------------------------------------
(* TOTP: lib/crypto/totp.ts *)

PERIOD == 30

\* the code of a secret at a time step: the truncated HMAC, taken to differ
\* between secrets and between steps
Token(secret, time) == [secret |-> secret, time |-> time]

\* generateTOTP(secret, timestamp): Math.floor((timestamp || Date.now()) / 1000 / PERIOD)
generateTOTP(secret, timestamp, clock) ==
    LET t == IF timestamp = 0 THEN clock ELSE timestamp
    IN  Token(secret, (t \div 1000) \div PERIOD)

\* verifyTOTP comparing against the code of the current step alone
verifyTOTP_CurrentStepOnly(secret, token, window, clock) ==
    generateTOTP(secret, clock, clock) = token

\* verifyTOTP(secret, token, window) once its promise is settled
verifyTOTP(secret, token, window, clock) ==
    \E i \in (0 - window)..window :
        generateTOTP(secret, clock + i * PERIOD * 1000, clock) = token

\* the Promise an async function returns, not awaited
PromiseOf(b) == IF b THEN "#promise:true" ELSE "#promise:false"

-----------------------------------------------------------------------------
(* The login route (app/api/auth/login), UserModel, MFAModel *)

AliceId == "u-alice"
AliceSecret == "JBSWY3DPEHPK3PXP"

\* the users table: password_hash is written as the password it is the hash of
InitialUsers ==
    [id \in {AliceId} |->
        [id |-> id, email |-> "alice@example.org", password_hash |-> "correct-password",
         failed_login_attempts |-> 0, locked_until |-> 0]]

\* the user_mfa table: one row for alice; locked_until = 0 above stands for NULL
MfaTable(enabled) ==
    [id \in {AliceId} |-> [is_enabled |-> enabled, secret |-> AliceSecret]]

findByEmail(email) ==
    LET hits == {id \in DOMAIN users : users[id].email = email}
    IN  IF hits = {} THEN NoUser ELSE users[CHOOSE id \in hits : TRUE]

\* bcrypt.compare(password, user.password_hash)
verifyPassword(user, password) == password = user.password_hash

isAccountLocked(user, clock) ==
    IF user.locked_until = 0 THEN FALSE ELSE clock < user.locked_until

\* incrementFailedAttempts locking one attempt late
incrementFailedAttempts_LocksLate(table, userId, clock) ==
    [table EXCEPT ![userId] =
        [@ EXCEPT !.failed_login_attempts = @ + 1,
                  !.locked_until = IF table[userId].failed_login_attempts >= 5
                                   THEN clock + 15 * MsPerMinute ELSE @]]

incrementFailedAttempts(table, userId, clock) ==
    [table EXCEPT ![userId] =
        [@ EXCEPT !.failed_login_attempts = @ + 1,
                  !.locked_until = IF table[userId].failed_login_attempts >= 4
                                   THEN clock + 15 * MsPerMinute ELSE @]]

updateLastLogin(table, userId) ==
    [table EXCEPT ![userId].failed_login_attempts = 0]

\* the request bodies of the model: email, password, and the code the client
\* sends: none, the one its authenticator shows, or one of five steps ahead
LoginInputs == {
    [email |-> "nobody@example.org", password |-> "wrong-password", code |-> "none"],
    [email |-> "alice@example.org", password |-> "wrong-password", code |-> "none"],
    [email |-> "alice@example.org", password |-> "correct-password", code |-> "none"],
    [email |-> "alice@example.org", password |-> "correct-password", code |-> "current"],
    [email |-> "alice@example.org", password |-> "correct-password", code |-> "stale"] }

WrongPasswordInputs == {in \in LoginInputs : in.password = "wrong-password"}

CodeSent(kind, clock) ==
    CASE kind = "none" -> NoCode
      [] kind = "current" -> Token(AliceSecret, (clock \div 1000) \div PERIOD)
      [] kind = "stale" -> Token(AliceSecret, (clock \div 1000) \div PERIOD + 5)

LoginEvent(type, task, reason) ==
    EventData(type, IF task.login.user.id = Null THEN Undefined ELSE task.login.user.id,
              task.ip, "Mozilla/5.0", reason)

\* POST /api/auth/login up to the row findByEmail returns
LoginStart(t, ip, input) ==
    /\ FreeSlot(t)
    /\ logins < MaxLogins
    /\ logins' = logins + 1
    /\ LET user == findByEmail(input.email)
       IN  tasks' = [tasks EXCEPT ![t] =
              [IdleTask EXCEPT !.kind = "login", !.ip = ip,
                               !.pc = IF user.id = Null THEN "nouser" ELSE "found",
                               !.login = [NoLogin EXCEPT !.email = input.email,
                                             !.password = input.password,
                                             !.mfaCode = CodeSent(input.code, now),
                                             !.user = user]]]
    /\ UNCHANGED <<callVars, callbackVars, authVars, abacVars, clockVars, gateVars, logVars, starts, calls>>

Respond(task, status) == [task EXCEPT !.pc = "done", !.status = status]

\* the login route from one database statement to the next
LoginStep(t) ==
    /\ tasks[t].kind = "login"
    /\ tasks[t].pc \notin {"idle", "done"}
    /\ LET task == tasks[t]
           user == task.login.user
           record(type, reason) == Append(events, CreateRow(LoginEvent(type, task, reason), now))
       IN  CASE task.pc = "nouser" ->
                  /\ events' = record("login_failed", "user_not_found")
                  /\ tasks' = [tasks EXCEPT ![t] = Respond(task, 401)]
                  /\ UNCHANGED <<users, sessions>>
             [] task.pc = "found" ->
                  \* isAccountLocked(user), then verifyPassword(user, password)
                  /\ tasks' = [tasks EXCEPT ![t].pc =
                        IF isAccountLocked(user, now) THEN "locked"
                        ELSE IF ~verifyPassword(user, task.login.password) THEN "increment"
                        ELSE "mfa"]
                  /\ UNCHANGED <<events, users, sessions>>
             [] task.pc = "locked" ->
                  /\ events' = record("login_blocked", "account_locked")
                  /\ tasks' = [tasks EXCEPT ![t] = Respond(task, 423)]
                  /\ UNCHANGED <<users, sessions>>
             [] task.pc = "increment" ->
                  /\ users' = incrementFailedAttempts(users, user.id, now)
                  /\ tasks' = [tasks EXCEPT ![t].pc = "failed"]
                  /\ UNCHANGED <<events, sessions>>
             [] task.pc = "failed" ->
                  /\ events' = record("login_failed", "invalid_password")
                  /\ tasks' = [tasks EXCEPT ![t] = Respond(task, 401)]
                  /\ UNCHANGED <<users, sessions>>
             [] task.pc = "mfa" ->
                  \* MFAModel.findByUserId, then lines 58-77
                  LET mfa == userMfa[user.id]
                      verified == verifyTOTP(mfa.secret, task.login.mfaCode, 1, now)
                      isValidMFA == PromiseOf(verified)
                      seen == [task EXCEPT !.login.mfaEnabled = mfa.is_enabled,
                                           !.login.codeValid = verified]
                  IN  /\ tasks' = [tasks EXCEPT ![t] =
                            IF mfa.is_enabled
                            THEN IF task.login.mfaCode = NoCode THEN Respond(seen, 200)
                                 ELSE IF ~Truthy(isValidMFA) THEN [seen EXCEPT !.pc = "mfaFailed"]
                                 ELSE [seen EXCEPT !.pc = "session"]
                            ELSE [seen EXCEPT !.pc = "session"]]
                      /\ UNCHANGED <<events, users, sessions>>
             [] task.pc = "mfaFailed" ->
                  /\ events' = record("mfa_failed", "invalid_mfa_code")
                  /\ tasks' = [tasks EXCEPT ![t] = Respond(task, 401)]
                  /\ UNCHANGED <<users, sessions>>
             [] task.pc = "session" ->
                  /\ sessions' = Append(sessions, [user_id |-> user.id, ip_address |-> task.ip])
                  /\ tasks' = [tasks EXCEPT ![t] =
                        [task EXCEPT !.pc = "lastLogin", !.login.session = TRUE]]
                  /\ UNCHANGED <<events, users>>
             [] task.pc = "lastLogin" ->
                  /\ users' = updateLastLogin(users, user.id)
                  /\ tasks' = [tasks EXCEPT ![t].pc = "success"]
                  /\ UNCHANGED <<events, sessions>>
             [] task.pc = "success" ->
                  /\ events' = record("login_success", Undefined)
                  /\ tasks' = [tasks EXCEPT ![t] = Respond(task, 200)]
                  /\ UNCHANGED <<users, sessions>>
    /\ UNCHANGED <<callVars, callbackVars, abacVars, clockVars, gateVars, alerts, actionLog, countVars, userMfa>>

-----------------------------------------------------------------------------
(* Initial states *)

\* no library function has been called directly
NoCall == [fn |-> "-"]

SystemInitWith(configs, slots, mfaTables, instants, tables) ==
    /\ now \in instants
    /\ ticks = 0
    /\ events \in tables
    /\ config \in configs
    /\ rateLimitStore = <<>>
    /\ blockedIPs = {}
    /\ tasks = [t \in 1..slots |-> IdleTask]
    /\ starts = 0
    /\ calls = 0
    /\ logins = 0
    /\ alerts = <<>>
    /\ actionLog = <<>>
    /\ users = InitialUsers
    /\ userMfa \in mfaTables
    /\ sessions = <<>>
    /\ lastCall = NoCall
    /\ alertCallbacks = <<>>
    /\ callbackLog = <<>>

SystemInitAt(configs, slots, mfaTables, instants) ==
    SystemInitWith(configs, slots, mfaTables, instants, {<<>>})

SystemInit(configs, slots, mfaTables) == SystemInitAt(configs, slots, mfaTables, {0})

RestInit == SystemInit({DeployedConfig({})}, 1, {MfaTable(FALSE)})

-----------------------------------------------------------------------------
(* The engine as a state machine *)

MaxPolicies == 6
MaxAbacOps  == 2

\* policies an administrator may add (handleCreatePolicy builds the first one)
PolicyPool == {
    Policy("policy-new", NoSubject, NoResource, "read", NoEnv, "allow", 50),
    Policy("deny-user-read", [NoSubject EXCEPT !.role = "user"], NoResource, "read", NoEnv, "deny", 40),
    Policy("allow-office-ip", NoSubject, NoResource, "*",
           [NoEnv EXCEPT !.ipAddress = "10.0.0.*"], "allow", 90) }

\* arrays handed to the constructor
InitialPolicyLists == {
    <<>>,
    defaultPolicies,
    << Policy("low-allow", NoSubject, NoResource, "read|write", NoEnv, "allow", 50),
       Policy("high-deny", NoSubject, [NoResource EXCEPT !.classification = ArrSensitive],
              "*", NoEnv, "deny", 90),
       Policy("high-allow", [NoSubject EXCEPT !.role = "admin"], NoResource, "*", NoEnv, "allow", 90) >> }

UpdatePriorities == {50, 90}

PolicyIds == {p.id : p \in PolicyPool} \cup
             UNION {{l[i].id : i \in 1..Len(l)} : l \in InitialPolicyLists}

Users == {
    [id |-> "u-admin", emailDomain |-> "security.com", role |-> "admin", mfaEnabled |-> JsTrue],
    [id |-> "u-user", emailDomain |-> "example.org", role |-> "user", mfaEnabled |-> JsFalse] }

Resources == {
    [type |-> "user-data", classification |-> "internal"],
    [type |-> "admin-panel", classification |-> "confidential"] }

Environments == {
    [time |-> [hour |-> 10, day |-> 2], ipAddress |-> "10.0.0.5", mfaVerified |-> JsTrue,
     location |-> Undefined],
    [time |-> [hour |-> 22, day |-> 0], ipAddress |-> Undefined, mfaVerified |-> JsFalse,
     location |-> Undefined] }

Contexts == {[user |-> u, resource |-> r, action |-> a, environment |-> e] :
                u \in Users, r \in Resources, a \in {"read", "delete"}, e \in Environments}

\* the i-th element gets insertion rank base + i - 1
WithSeq(list, base) == [i \in 1..Len(list) |-> [list[i] EXCEPT !.seq = base + i - 1]]

NoEval == [done |-> FALSE, context |-> CHOOSE c \in Contexts : TRUE, policies |-> <<>>,
           result |-> [decision |-> "deny", matchedPolicies |-> <<>>, reason |-> NoMatchReason],
           via |-> "-", totpVerified |-> FALSE]

\* constructor(policies): this.policies = [...policies].sort(...)
InitABAC ==
    /\ \E initial \in InitialPolicyLists :
          /\ policies = SortByPriority(WithSeq(initial, 0))
          /\ nextSeq = Len(initial)
    /\ abacOps = 0
    /\ lastEval = NoEval
    /\ RestInit

addPolicy(policy) ==
    /\ abacOps < MaxAbacOps
    /\ Len(policies) < MaxPolicies
    /\ \A i \in 1..Len(policies) : policies[i].id # policy.id
    /\ policies' = SortByPriority(Append(policies, [policy EXCEPT !.seq = nextSeq]))
    /\ nextSeq' = nextSeq + 1
    /\ abacOps' = abacOps + 1
    /\ UNCHANGED lastEval
    /\ UNCHANGED <<callVars, callbackVars, authVars, clockVars, gateVars, logVars, taskVars>>

removePolicy(policyId) ==
    /\ abacOps < MaxAbacOps
    /\ policies' = SelectSeq(policies, LAMBDA p : p.id # policyId)
    /\ abacOps' = abacOps + 1
    /\ UNCHANGED <<nextSeq, lastEval>>
    /\ UNCHANGED <<callVars, callbackVars, authVars, clockVars, gateVars, logVars, taskVars>>

\* { ...this.policies[index], ...updates } for updates = { priority } or { effect }
Merge(policy, updates) ==
    [policy EXCEPT !.priority = IF updates.hasPriority THEN updates.priority ELSE @,
                   !.effect = IF updates.hasEffect THEN updates.effect ELSE @]

PolicyUpdates ==
    {[hasPriority |-> TRUE, priority |-> pr, hasEffect |-> FALSE, effect |-> "allow"] :
        pr \in UpdatePriorities} \cup
    {[hasPriority |-> FALSE, priority |-> 0, hasEffect |-> TRUE, effect |-> ef] :
        ef \in {"allow", "deny"}}

\* an update that inserts the policy when the id is not there
UpdatedPolicies_Upsert(ps, policyId, updates) ==
    LET found == {i \in 1..Len(ps) : ps[i].id = policyId}
    IN  IF found # {}
        THEN LET index == CHOOSE i \in found : \A j \in found : i <= j
             IN  SortByPriority([ps EXCEPT ![index] = Merge(@, updates)])
        ELSE SortByPriority(Append(ps, Merge(Policy(policyId, NoSubject, NoResource, "*", NoEnv,
                                                    "deny", 0), updates)))

\* this.policies after updatePolicy(policyId, updates): findIndex, and when the
\* index is not -1 the merge at that index and the sort
UpdatedPolicies(ps, policyId, updates) ==
    LET found == {i \in 1..Len(ps) : ps[i].id = policyId}
    IN  IF found # {}
        THEN LET index == CHOOSE i \in found : \A j \in found : i <= j
             IN  SortByPriority([ps EXCEPT ![index] = Merge(@, updates)])
        ELSE ps

updatePolicy(policyId, updates) ==
    /\ abacOps < MaxAbacOps
    /\ abacOps' = abacOps + 1
    /\ policies' = UpdatedPolicies(policies, policyId, updates)
    /\ UNCHANGED <<nextSeq, lastEval>>
    /\ UNCHANGED <<callVars, callbackVars, authVars, clockVars, gateVars, logVars, taskVars>>

Evaluate(context) ==
    /\ lastEval' = [done |-> TRUE, context |-> context, policies |-> policies,
                    result |-> evaluate(policies, context),
                    via |-> "evaluate", totpVerified |-> FALSE]
    /\ UNCHANGED <<policies, nextSeq, abacOps>>
    /\ UNCHANGED <<callVars, callbackVars, authVars, clockVars, gateVars, logVars, taskVars>>

NextABAC ==
    \/ \E p \in PolicyPool : addPolicy(p)
    \/ \E id \in PolicyIds : removePolicy(id)
    \/ \E id \in PolicyIds, u \in PolicyUpdates : updatePolicy(id, u)
    \/ \E c \in Contexts : Evaluate(c)

SpecABAC == InitABAC /\ [][NextABAC]_vars

\* the global policyEngine, left alone
AbacIdle ==
    /\ policies = SortByPriority(WithSeq(defaultPolicies, 0))
    /\ nextSeq = Len(defaultPolicies)
    /\ abacOps = 0
    /\ lastEval = NoEval

-----------------------------------------------------------------------------
(* checkPermission on the global policyEngine *)

\* new Date(timestamp).getDay(), with the local zone at UTC (1 January 1970 was a Thursday)
getDay(timestamp) == (4 + timestamp \div (24 * MsPerHour)) % 7

\* the environment argument: {} as every caller in the repository passes it,
\* or one that states mfaVerified
EnvArgs == {[ipAddress |-> Absent, mfaVerified |-> m] : m \in {Absent, JsTrue, JsFalse}}

\* the context checkPermission builds: { time: new Date(), mfaVerified: user.mfaEnabled, ...environment }
checkPermissionContext(user, resource, action, environment, clock) ==
    [user |-> user, resource |-> resource, action |-> action,
     environment |->
        [time |-> [hour |-> getHours(clock), day |-> getDay(clock)],
         mfaVerified |-> IF environment.mfaVerified # Absent THEN environment.mfaVerified
                         ELSE user.mfaEnabled,
         ipAddress |-> IF environment.ipAddress # Absent THEN environment.ipAddress
                       ELSE Undefined,
         location |-> Undefined]]

\* checkPermission(user, resource, action, environment); verified tells whether a
\* TOTP code was verified for the user, and a caller states mfaVerified: true
\* only when one was
CheckPermission(user, resource, action, environment, verified) ==
    /\ environment.mfaVerified = JsTrue => verified
    /\ LET context == checkPermissionContext(user, resource, action, environment, now)
       IN  lastEval' = [done |-> TRUE, context |-> context, policies |-> policies,
                        result |-> evaluate(policies, context),
                        via |-> "checkPermission", totpVerified |-> verified]
    /\ UNCHANGED <<policies, nextSeq, abacOps>>
    /\ UNCHANGED <<callVars, callbackVars, authVars, clockVars, gateVars, logVars, taskVars>>

InitPermission ==
    /\ AbacIdle
    /\ RestInit

NextPermission ==
    \/ \E u \in Users, r \in Resources, a \in {"read", "delete"}, e \in EnvArgs,
          verified \in BOOLEAN : CheckPermission(u, r, a, e, verified)
    \/ \E p \in PolicyPool : addPolicy(p)
    \/ \E id \in PolicyIds : removePolicy(id)
    \/ \E id \in PolicyIds, u \in PolicyUpdates : updatePolicy(id, u)

SpecPermission == InitPermission /\ [][NextPermission]_vars

-----------------------------------------------------------------------------
(* matchesPolicy on one policy and one context *)

\* policies with and without wildcards in each of the four matchers
MatcherPolicies == {
    Policy("any-subject", [NoSubject EXCEPT !.role = "*"], NoResource, "read", NoEnv, "allow", 50),
    Policy("any-department", [role |-> "admin", department |-> "*"], NoResource, "read|write",
           NoEnv, "allow", 50),
    Policy("any-resource", NoSubject, [type |-> "*", classification |-> "*"], "delete", NoEnv,
           "deny", 50),
    Policy("any-type-confidential", NoSubject, [type |-> "*", classification |-> "confidential"],
           "write|delete", NoEnv, "deny", 50),
    Policy("any-action", [NoSubject EXCEPT !.role = "user"], NoResource, "*", NoEnv, "allow", 50),
    Policy("any-ip", NoSubject, NoResource, "*", [NoEnv EXCEPT !.ipAddress = "*"], "allow", 50),
    Policy("any-location", NoSubject, NoResource, "*", [NoEnv EXCEPT !.location = "*"], "allow", 50),
    Policy("any-mfa", NoSubject, NoResource, "read", [NoEnv EXCEPT !.mfaVerified = "*"], "allow", 50),
    Policy("office-ip-mfa", NoSubject, NoResource, "*",
           [NoEnv EXCEPT !.ipAddress = "10.0.0.*", !.mfaVerified = JsTrue], "allow", 50),
    Policy("no-conditions", NoSubject, NoResource, "read", NoEnv, "allow", 50) }

\* this.matchesPolicy(policy, context), with the result of each of its four matchers
MatchesPolicy(policy, context) ==
    /\ lastCall' = [fn |-> "matchesPolicy", policy |-> policy, context |-> context,
                    subject |-> matchesAttributes(policy.subject, getUserAttributes(context.user)),
                    resource |-> matchesAttributes(policy.resource, context.resource),
                    action |-> matchesAction(policy.action, context.action),
                    environment |-> matchesEnvironment(policy.environment, context.environment),
                    result |-> matchesPolicy(policy, context)]
    /\ UNCHANGED <<abacVars, authVars, callbackVars, clockVars, gateVars, logVars, taskVars>>

InitMatch ==
    /\ AbacIdle
    /\ RestInit

NextMatch == \E policy \in MatcherPolicies, context \in Contexts : MatchesPolicy(policy, context)

SpecMatch == InitMatch /\ [][NextMatch]_vars

-----------------------------------------------------------------------------
(* generateTOTP and verifyTOTP called directly *)

Secrets == {AliceSecret, "KRSXG5DTMVRXEZLU"}

\* Date.now() at the start: the first millisecond, the middle and the last
\* second of a time step, well after the epoch as every real clock is
Instants == {1200000, 1201000, 1215000, 1229000, 1229500, 1229999, 1230000, 1259999}

\* the timestamp arguments of generateTOTP
Timestamps == {0, 1, 1000, 29999, 30000, 45000, 59999}

\* the distance from Date.now() of the timestamp a presented code was generated for
Offsets == {0 - 60000, 0 - 30000, 0 - 1000, 0, 1000, 31000, 60000}

Windows == {0, 1}

TotpTicks == {1, 30000}

\* await generateTOTP(secret, timestamp); prev keeps the generateTOTP call before it
GenerateTOTP(secret, timestamp) ==
    /\ lastCall' = [fn |-> "generateTOTP", secret |-> secret, timestamp |-> timestamp,
                    clock |-> now, result |-> generateTOTP(secret, timestamp, now),
                    prev |-> IF lastCall.fn = "generateTOTP"
                             THEN [lastCall EXCEPT !.prev = NoCall] ELSE NoCall]
    /\ UNCHANGED <<abacVars, authVars, callbackVars, clockVars, gateVars, logVars, taskVars>>

\* await verifyTOTP(secret, token, window) with the code generateTOTP gives for
\* codeSecret at the timestamp Date.now() + offset
VerifyTOTP(secret, codeSecret, offset, window) ==
    LET token == generateTOTP(codeSecret, now + offset, now)
    IN  /\ lastCall' = [fn |-> "verifyTOTP", secret |-> secret, token |-> token,
                        of |-> now + offset, window |-> window, clock |-> now,
                        result |-> verifyTOTP(secret, token, window, now)]
        /\ UNCHANGED <<abacVars, authVars, callbackVars, clockVars, gateVars, logVars, taskVars>>

InitTOTP ==
    /\ AbacIdle
    /\ SystemInitAt({DeployedConfig({})}, 1, {MfaTable(FALSE)}, Instants)

NextTOTP ==
    \/ \E secret \in Secrets, timestamp \in Timestamps : GenerateTOTP(secret, timestamp)
    \/ \E secret \in Secrets, codeSecret \in Secrets, offset \in Offsets, window \in Windows :
          VerifyTOTP(secret, codeSecret, offset, window)
    \/ \E d \in TotpTicks : Tick(d)

SpecTOTP == InitTOTP /\ [][NextTOTP]_vars

-----------------------------------------------------------------------------
(* The gate: requests through the middleware, blockIP / unblockIP, the clock *)

GateTicks == {1, WindowMs - 1}

InitGate ==
    /\ AbacIdle
    /\ SystemInit({DeployedConfig({}), DeployedConfig({"10.0.0.5"})}, 1, {MfaTable(FALSE)})

NextGate ==
    \/ \E t \in TaskIds, ip \in IPs, req \in RequestKinds : MwStart(t, ip, req)
    \/ \E t \in TaskIds : MwResume(t)
    \/ \E t \in TaskIds : LoggerStep(t)
    \/ \E ip \in IPs : blockIP(ip)
    \/ \E ip \in IPs : unblockIP(ip)
    \/ \E d \in GateTicks : Tick(d)

SpecGate == InitGate /\ [][NextGate]_vars

\* requests of one source in one window, each in progress while the others
\* arrive: as many slots as requests, and a request takes a slot never used
InitRace ==
    /\ AbacIdle
    /\ SystemInit({DeployedConfig({})}, MaxStarts, {MfaTable(FALSE)})

NextRace ==
    \/ \E t \in TaskIds, req \in RequestKinds :
          tasks[t].pc = "idle" /\ MwStart(t, "10.0.0.5", req)
    \/ \E t \in TaskIds : MwResume(t)
    \/ \E t \in TaskIds : LoggerStep(t)

SpecRace == InitRace /\ [][NextRace]_vars

\* requests of one source on both sides of a bucket boundary, each keeping its
\* slot so that its count and bucket stay on record
NextWindow ==
    \/ \E t \in TaskIds, req \in RequestKinds :
          tasks[t].pc = "idle" /\ MwStart(t, "10.0.0.5", req)
    \/ \E t \in TaskIds : MwResume(t)
    \/ \E t \in TaskIds : LoggerStep(t)
    \/ \E d \in GateTicks : Tick(d)

SpecWindow == InitRace /\ [][NextWindow]_vars

\* requests arriving over several windows, every enabled step taken in the end:
\* the server keeps serving and the clock keeps going
ExpiryTicks == {1, WindowMs}

NextExpiry ==
    \/ \E t \in TaskIds, req \in RequestKinds : MwStart(t, "10.0.0.5", req)
    \/ \E t \in TaskIds : MwResume(t)
    \/ \E t \in TaskIds : LoggerStep(t)
    \/ \E d \in ExpiryTicks : Tick(d)

SpecExpiry == InitRace /\ [][NextExpiry]_vars /\ WF_vars(NextExpiry)

\* the same gate built from a configuration object with an undefined list
InitFault ==
    /\ AbacIdle
    /\ SystemInit(FaultyConfigs, 1, {MfaTable(FALSE)})

SpecFault == InitFault /\ [][NextGate]_vars

-----------------------------------------------------------------------------
(* The logger called through logSecurityEvent *)

LoggedEvents ==
    {EventData("failed_login", Undefined, ip, "Mozilla/5.0", "invalid_password") : ip \in IPs}
    \cup {EventData("successful_login", AliceId, "10.0.0.5", "Mozilla/5.0", Undefined)}

LoggerTicks == {1, 10 * MsPerMinute}

InitLogger ==
    /\ AbacIdle
    /\ RestInit

NextLogger ==
    \/ \E t \in TaskIds, eventData \in LoggedEvents : LogSecurityEvent(t, eventData)
    \/ \E t \in TaskIds : LogSecurityEventReturn(t)
    \/ \E t \in TaskIds : LoggerStep(t)
    \/ \E d \in LoggerTicks : Tick(d)

SpecLogger == InitLogger /\ [][NextLogger]_vars

\* generateAlert and executeAlertActions on their own, for event rows of the table
AlertEvents ==
    {CreateRow(EventData("failed_login", AliceId, "10.0.0.5", "Mozilla/5.0", Undefined), 0),
     CreateRow(EventData("access_denied", AliceId, Undefined, Undefined,
                         "insufficient_permissions"), 0)}

NextAlert ==
    \/ \E t \in TaskIds, i \in 1..Len(patterns), event \in AlertEvents :
          GenerateAlert(t, patterns[i], event)
    \/ \E t \in TaskIds : LogSecurityEventReturn(t)
    \/ \E t \in TaskIds : LoggerStep(t)
    \/ Tick(1)

SpecAlert == InitLogger /\ [][NextAlert]_vars

\* the logger with the event table already holding as many rows of one source,
\* inside the window, as rapid_requests asks for; every call in progress goes on
\* (each await of the chain is on a fetch, which settles)
RapidRow == CreateRow(EventData("api_request", Undefined, "10.0.0.5", "Mozilla/5.0", Undefined), 0)
RapidTable == [i \in 1..patterns[4].threshold |-> RapidRow]

InitChain ==
    /\ AbacIdle
    /\ SystemInitWith({DeployedConfig({})}, 1, {MfaTable(FALSE)}, {0}, {RapidTable})

ChainEvents == {EventData("successful_login", AliceId, "10.0.0.5", "Mozilla/5.0", Undefined)}
ChainPatterns == {i \in 1..Len(patterns) : patterns[i].pattern = "rapid_requests"}

NextChain ==
    \/ \E t \in TaskIds, eventData \in ChainEvents : LogSecurityEvent(t, eventData)
    \/ \E t \in TaskIds, i \in ChainPatterns : GenerateAlert(t, patterns[i], RapidRow)
    \/ \E t \in TaskIds : LogSecurityEventReturn(t)
    \/ \E t \in TaskIds : LoggerStep(t)

SpecChain ==
    /\ InitChain
    /\ [][NextChain]_vars
    /\ \A t \in {1} : WF_vars(LoggerStep(t)) /\ WF_vars(LogSecurityEventReturn(t))

-----------------------------------------------------------------------------
(* Logins, and logins together with the gate *)

\* generateAlert with callbacks registered
NotifyEvent == CreateRow(EventData("failed_login", AliceId, "10.0.0.5", "Mozilla/5.0", Undefined), 0)

NextNotify ==
    \/ \E t \in TaskIds, i \in 1..Len(patterns) : GenerateAlert(t, patterns[i], NotifyEvent)
    \/ \E t \in TaskIds : LogSecurityEventReturn(t)
    \/ \E t \in TaskIds : LoggerStep(t)
    \/ \E callback \in Callbacks : onAlert(callback)

SpecNotify == InitLogger /\ [][NextNotify]_vars

\* event rows handed to analyzePatterns
AnalyzeEvents ==
    {CreateRow(EventData("successful_login", AliceId, "10.0.0.5", "Mozilla/5.0", Undefined),
               22 * MsPerHour),
     CreateRow(EventData("successful_login", AliceId, Undefined, "curl/8.0", Undefined),
               7 * MsPerHour),
     CreateRow(EventData("failed_login", Undefined, "10.0.0.5", "curl/8.0", "invalid_password"),
               12 * MsPerHour),
     CreateRow(EventData("access_denied", AliceId, Undefined, "Mozilla/5.0",
                         "insufficient_permissions"), 0)}

NextAnalyze ==
    \/ \E t \in TaskIds, event \in AnalyzeEvents : AnalyzePatterns(t, event)
    \/ \E t \in TaskIds : LogSecurityEventReturn(t)
    \/ \E t \in TaskIds : LoggerStep(t)
    \/ Tick(1)

SpecAnalyze == InitLogger /\ [][NextAnalyze]_vars

-----------------------------------------------------------------------------
(* checkPattern on one pattern and one event row *)

\* the local times of day of the events: hours and minutes
EventTimes == {[h |-> 0, m |-> 0], [h |-> 7, m |-> 59], [h |-> 8, m |-> 0], [h |-> 12, m |-> 0],
               [h |-> 17, m |-> 59], [h |-> 18, m |-> 0], [h |-> 18, m |-> 30],
               [h |-> 19, m |-> 0], [h |-> 23, m |-> 59]}

PatternEvents ==
    {CreateRow(EventData(type, AliceId, "10.0.0.5", "Mozilla/5.0", Undefined),
               at.h * MsPerHour + at.m * MsPerMinute) :
        type \in {"successful_login", "failed_login"}, at \in EventTimes}

\* await this.checkPattern(pattern, event)
CheckPattern(pattern, event) ==
    \E fetched \in (IF NeedsFetch(pattern, event) THEN {"ok", "notok", "throw"} ELSE {"ok"}) :
        LET body == RouteGETBody(events, FetchType(pattern), FetchLimit(pattern))
        IN  /\ lastCall' = [fn |-> "checkPattern", pattern |-> pattern, event |-> event,
                            fetched |-> fetched, clock |-> now,
                            result |-> checkPattern(pattern, event, fetched, body, now)]
            /\ UNCHANGED <<abacVars, authVars, callbackVars, clockVars, gateVars, logVars, taskVars>>

InitPattern ==
    /\ AbacIdle
    /\ RestInit

NextPattern ==
    \E i \in 1..Len(patterns), event \in PatternEvents : CheckPattern(patterns[i], event)

SpecPattern == InitPattern /\ [][NextPattern]_vars

\* checkPattern over event tables in which one source has a few rows and
\* another source has recorded none, or more than the queries' LIMIT, after them
CrowdTypes == {"failed_login", "access_denied"}
OwnRow(type) ==
    CreateRow(EventData(type, AliceId, "10.0.0.5", "curl/8.0", "insufficient_permissions"), 0)
OtherRow(type) ==
    CreateRow(EventData(type, "u-other", "203.0.113.9", "curl/8.0", "insufficient_permissions"), 0)
CrowdTable(type, own, others) ==
    [i \in 1..(own + others) |-> IF i <= own THEN OwnRow(type) ELSE OtherRow(type)]
CrowdTables ==
    {CrowdTable(type, own, others) :
        type \in CrowdTypes, own \in {2, 3, 4, 5, 10, 100}, others \in {0, 100, 200}}

InitCrowd ==
    /\ AbacIdle
    /\ SystemInitWith({DeployedConfig({})}, 1, {MfaTable(FALSE)}, {0}, CrowdTables)

\* checkPattern for an event of the first source, as the table holds it
NextCrowd ==
    \E i \in 1..Len(patterns) : CheckPattern(patterns[i], events[1])

SpecCrowd == InitCrowd /\ [][NextCrowd]_vars

LoginIPs == {"10.0.0.5"}
LoginTicks == {1, 15 * MsPerMinute}

InitLogin ==
    /\ AbacIdle
    /\ SystemInit({DeployedConfig({})}, 1, {MfaTable(TRUE), MfaTable(FALSE)})

NextLogin ==
    \/ \E t \in TaskIds, ip \in LoginIPs, input \in LoginInputs : LoginStart(t, ip, input)
    \/ \E t \in TaskIds : LoginStep(t)
    \/ \E d \in LoginTicks : Tick(d)

SpecLogin == InitLogin /\ [][NextLogin]_vars

\* the login route with the requests for alice's account
LockoutInputs == {in \in LoginInputs : in.email = "alice@example.org" /\ in.code # "stale"}

NextLockout ==
    \/ \E t \in TaskIds, ip \in LoginIPs, input \in LockoutInputs : LoginStart(t, ip, input)
    \/ \E t \in TaskIds : LoginStep(t)
    \/ \E d \in LoginTicks : Tick(d)

SpecLockout == InitLogin /\ [][NextLockout]_vars

\* login requests for alice's account with a wrong password, each in progress
\* while the others arrive: as many slots as requests
InitStorm ==
    /\ AbacIdle
    /\ SystemInit({DeployedConfig({})}, MaxLogins, {MfaTable(FALSE)})

NextStorm ==
    \/ \E t \in TaskIds, ip \in LoginIPs, input \in WrongPasswordInputs \cap LockoutInputs :
          tasks[t].pc = "idle" /\ LoginStart(t, ip, input)
    \/ \E t \in TaskIds : LoginStep(t)

SpecStorm == InitStorm /\ [][NextStorm]_vars

\* the deployed system: the login route and the middleware on one event table
Next ==
    \/ \E t \in TaskIds, ip \in LoginIPs, input \in WrongPasswordInputs : LoginStart(t, ip, input)
    \/ \E t \in TaskIds : LoginStep(t)
    \/ \E t \in TaskIds, ip \in LoginIPs : MwStart(t, ip, "page")
    \/ \E t \in TaskIds : MwResume(t)
    \/ \E t \in TaskIds : LoggerStep(t)
    \/ Tick(MsPerMinute)

Spec == InitLogger /\ [][Next]_vars

-----------------------------------------------------------------------------
(* Claims about the policy engine *)

MatchingAt(ps, context, effect) ==
    {i \in 1..Len(ps) : matchesPolicy(ps[i], context) /\ ps[i].effect = effect}

\* C1: deny-overrides. Whenever evaluate was called and some policy of effect
\* deny matched the context, the decision is deny, whatever the priorities of
\* the matching allow policies.
C1_DenyOverrides ==
    lastEval.done =>
        (MatchingAt(lastEval.policies, lastEval.context, "deny") # {}
            => lastEval.result.decision = "deny")

\* an evaluation in which an allow of higher priority than a matching deny also matched
C1_Witness ==
    /\ lastEval.done
    /\ \E i \in MatchingAt(lastEval.policies, lastEval.context, "allow") :
       \E j \in MatchingAt(lastEval.policies, lastEval.context, "deny") :
          lastEval.policies[i].priority > lastEval.policies[j].priority
    /\ lastEval.result.decision = "deny"

\* C2: default-deny. The decision is allow exactly when some matching policy
\* allows and no matching policy denies; when nothing matches the decision is
\* deny and matchedPolicies is empty.
C2_DefaultDeny ==
    lastEval.done =>
        LET allows == MatchingAt(lastEval.policies, lastEval.context, "allow")
            denies == MatchingAt(lastEval.policies, lastEval.context, "deny")
        IN  /\ (lastEval.result.decision = "allow") <=> (allows # {} /\ denies = {})
            /\ (allows = {} /\ denies = {}) =>
                  /\ lastEval.result.decision = "deny"
                  /\ lastEval.result.matchedPolicies = <<>>

\* C3: the policy list is sorted by priority descending and policies of equal
\* priority appear in the order in which they were inserted.
C3_SortedStableByInsertion ==
    \A i, j \in 1..Len(policies) :
        i < j => /\ policies[i].priority >= policies[j].priority
                 /\ (policies[i].priority = policies[j].priority
                        => policies[i].seq < policies[j].seq)

\* the position of policy p in the list ps (list elements differ in seq)
IndexIn(ps, p) == CHOOSE j \in 1..Len(ps) : ps[j] = p

\* C24: in every result of evaluate, matchedPolicies is a subsequence of the
\* engine's policy list, every element of it matches the context, every
\* matching policy up to the first matching deny is in it, and it holds at most
\* one deny policy, which is then its last element and the one the reason names.
C24_MatchedPolicies ==
    (lastEval.done /\ lastEval.via = "evaluate") =>
        LET ps == lastEval.policies
            ctx == lastEval.context
            m == lastEval.result.matchedPolicies
            denies == MatchingAt(ps, ctx, "deny")
            inM == {m[i] : i \in 1..Len(m)}
            deniesInM == {i \in 1..Len(m) : m[i].effect = "deny"}
        IN  /\ \A i \in 1..Len(m) :
                  /\ \E j \in 1..Len(ps) : ps[j] = m[i]
                  /\ matchesPolicy(m[i], ctx)
            /\ \A i, k \in 1..Len(m) : i < k => IndexIn(ps, m[i]) < IndexIn(ps, m[k])
            /\ \A j \in 1..Len(ps) :
                  (matchesPolicy(ps[j], ctx) /\ \A d \in denies : j <= d) => ps[j] \in inM
            /\ Cardinality(deniesInM) <= 1
            /\ \A i \in deniesInM :
                  /\ i = Len(m)
                  /\ lastEval.result.reason = [kind |-> "Denied by policy", policy |-> m[i].name]

\* an evaluation that collected an allow and then stopped at a deny, with a
\* further matching policy behind the deny
C24_Witness ==
    /\ lastEval.done /\ lastEval.via = "evaluate"
    /\ LET ps == lastEval.policies
           m == lastEval.result.matchedPolicies
       IN  /\ Len(m) >= 2
           /\ m[1].effect = "allow"
           /\ m[Len(m)].effect = "deny"
           /\ \E j \in 1..Len(ps) :
                 /\ matchesPolicy(ps[j], lastEval.context)
                 /\ j > IndexIn(ps, m[Len(m)])

IdsOf(ps) == {ps[i].id : i \in 1..Len(ps)}

C22_AdminAllowedEverything ==
    (/\ lastEval.done
     /\ lastEval.via = "checkPermission"
     /\ lastEval.policies = SortByPriority(WithSeq(defaultPolicies, 0))
     /\ lastEval.context.user.role = "admin") =>
        lastEval.result.decision = "allow"

\* C11: the mfaVerified attribute of the context checkPermission evaluates is
\* true only when a TOTP code was verified for the subject; MFA being enabled on
\* the account does not make it true.
C11_MfaVerifiedMeansVerified ==
    (lastEval.done /\ lastEval.via = "checkPermission") =>
        (lastEval.context.environment.mfaVerified = JsTrue => lastEval.totpVerified)

-----------------------------------------------------------------------------
(* Claims about the gate *)

MwDone(t) == tasks[t].kind = "mw" /\ tasks[t].pc = "done"

\* C4: the gate blocks before it counts. A request whose source IP is in the
\* blocklist (the dynamic set or the configured list) when it arrives gets the
\* Blocked outcome and is not counted by the rate limiter; while it is being
\* handled it is on the blocked path.
C4_BlockedBeforeCounted ==
    \A t \in TaskIds :
        (tasks[t].kind = "mw" /\ tasks[t].wasBlocked) =>
            /\ tasks[t].count = 0
            /\ tasks[t].pc \in {"blocked", "done"}
            /\ tasks[t].pc = "done" => tasks[t].outcome = "Blocked"

\* a request from an address was admitted and counted, blockIP put the address
\* in the set, and the next request from it got Blocked although its bucket is
\* not over the ceiling
C4_Witness ==
    \E t \in TaskIds :
        /\ MwDone(t) /\ tasks[t].wasBlocked /\ tasks[t].outcome = "Blocked"
        /\ tasks[t].ip \in blockedIPs
        /\ \E k \in DOMAIN rateLimitStore :
              k[1] = tasks[t].ip /\ rateLimitStore[k].count <= config.rateLimitRequests

\* C5: for a non-trusted, non-blocked source exactly the first `ceiling`
\* requests of a window are admitted and every later one is RateLimited with a
\* strictly positive Retry-After.
C5_CeilingThenPositiveRetryAfter ==
    \A t \in TaskIds :
        (MwDone(t) /\ ~tasks[t].wasBlocked /\ tasks[t].ip \notin config.trustedIPs) =>
            /\ tasks[t].count >= 1
            /\ tasks[t].count <= config.rateLimitRequests => tasks[t].outcome = "Admitted"
            /\ tasks[t].count > config.rateLimitRequests =>
                  /\ tasks[t].outcome = "RateLimited"
                  /\ tasks[t].retryAfter > 0

Quiescent == \A t \in TaskIds : Free(t)

BurstAlertFor(ip, from) ==
    \E i \in (from + 1)..Len(alerts) :
        /\ alerts[i].pattern = "failed_login_burst"
        /\ alerts[i].type = "brute_force"
        /\ alerts[i].severity = "high"
        /\ alerts[i].sourceIP = ip

\* C6: end to end. Once the login route has recorded five login_failed events
\* for one source IP within 9 minutes, there is a brute_force alert of severity
\* high for that IP, block_ip was executed for it, and a request from that IP
\* arriving at the middleware from then on gets the Blocked outcome.
C6_BruteForceBlocksSource ==
    /\ \A ip \in IPs :
          (Quiescent /\ FailedLogins(ip, now, 9) >= 5) =>
              /\ BurstAlertFor(ip, 0)
              /\ \E j \in 1..Len(actionLog) :
                    actionLog[j].action = "block_ip" /\ actionLog[j].sourceIP = ip
    /\ \A t \in TaskIds :
          (MwDone(t) /\ tasks[t].burst) => tasks[t].outcome = "Blocked"

\* C7: executing block_ip (block_user) leaves the blocklist the gate reads
\* equal to the one before plus the alert's source IP (affected user): the
\* identity is added, and nothing changes when it is already there.
C7_BlockActionsFillBlocklist ==
    [][\A ip \in IPs \cup {AliceId} :
          (/\ Len(actionLog') = Len(actionLog) + 1
           /\ \/ /\ actionLog'[Len(actionLog')].action = "block_ip"
                 /\ actionLog'[Len(actionLog')].sourceIP = ip
              \/ /\ actionLog'[Len(actionLog')].action = "block_user"
                 /\ actionLog'[Len(actionLog')].affectedUser = ip)
          => blockedIPs' = blockedIPs \cup {ip}]_vars

\* the failed_login rows for ip in the ten minutes up to the instant at
FailedLoginRows(ip, at) ==
    Cardinality({i \in 1..Len(events) :
        /\ events[i].event_type = "failed_login"
        /\ events[i].ip_address = ip
        /\ events[i].timestamp > at - 10 * MsPerMinute})

\* C8: failed_login_burst. When logging a failed_login event for IP x has
\* returned and the log held exactly 4 failed_login events for x inside the
\* window, the call raised no alert; when it held 5 or more, it raised one.
C8_BurstThreshold ==
    \A t \in TaskIds :
        (tasks[t].kind = "log" /\ tasks[t].pc = "done"
            /\ tasks[t].logged.event_type = "failed_login") =>
            LET x == tasks[t].logged.ip_address
                n == FailedLoginRows(x, tasks[t].logged.timestamp)
            IN  /\ n = 4 => ~BurstAlertFor(x, tasks[t].alertsBefore)
                /\ n >= 5 => BurstAlertFor(x, tasks[t].alertsBefore)

\* C9: with MFA enabled for the user, the login route creates a session only
\* if the code sent passes TOTP verification against the user's secret; a login
\* with the correct password and a code that does not verify ends with status
\* 401 and no session.
C9_SessionOnlyAfterTOTP ==
    \A t \in TaskIds :
        (tasks[t].kind = "login" /\ tasks[t].login.mfaEnabled) =>
            /\ tasks[t].login.session => tasks[t].login.codeValid
            /\ (tasks[t].pc = "done" /\ tasks[t].login.mfaCode # NoCode
                    /\ ~tasks[t].login.codeValid) =>
                  (tasks[t].status = 401 /\ ~tasks[t].login.session)

\* C12: every Blocked (RateLimited) outcome is preceded by a recorded event of
\* type blocked_ip_access_attempt (rate_limit_exceeded): when the response is
\* returned the event of this request is in the event log, also when the call
\* that records it failed.
C12_EventBeforeResponse ==
    \A t \in TaskIds :
        (MwDone(t) /\ tasks[t].outcome \in {"Blocked", "RateLimited"}) =>
            /\ tasks[t].logged.event_type =
                  (IF tasks[t].outcome = "Blocked" THEN "blocked_ip_access_attempt"
                   ELSE "rate_limit_exceeded")
            /\ tasks[t].logged.ip_address = tasks[t].ip
            /\ \E i \in 1..Len(events) : events[i] = tasks[t].logged

\* the requests the middleware let through
AdmittedRequests ==
    {t \in TaskIds : tasks[t].kind = "mw" /\ tasks[t].pc = "done"
                        /\ tasks[t].outcome = "Admitted" /\ tasks[t].count >= 1}

\* the instant the bucket of request t was created: its resetTime less the window
BucketStart(t) == rateLimitStore[<<tasks[t].ip, tasks[t].bucket>>].resetTime - WindowMs

\* the arrival of request t lies between these: the first request of a bucket
\* arrived when the bucket was created, a later one before the bucket's end
Earliest(t) == BucketStart(t)
Latest(t) == IF tasks[t].count = 1 THEN BucketStart(t)
             ELSE (tasks[t].bucket + 1) * WindowMs - 1

\* C27: in every interval of length rateLimitWindow, whatever its alignment
\* with the bucket boundaries, at most rateLimitRequests requests of one source
\* are admitted (taken over the intervals that begin when a bucket is created,
\* and the requests whose arrival is known to lie inside).
C27_SlidingWindow ==
    \A u \in AdmittedRequests :
        LET from == Earliest(u)
            inside == {t \in AdmittedRequests :
                          /\ tasks[t].ip = tasks[u].ip
                          /\ from <= Earliest(t)
                          /\ Latest(t) < from + WindowMs}
        IN  Cardinality(inside) <= config.rateLimitRequests

\* the buckets whose resetTime has passed
Expired == {key \in DOMAIN rateLimitStore : rateLimitStore[key].resetTime <= now}

Requests == {t \in TaskIds : tasks[t].kind = "mw"}

Min(a, b) == IF a <= b THEN a ELSE b

C13_TrustedNeverRefused ==
    \A t \in TaskIds :
        (MwDone(t) /\ tasks[t].ip \in config.trustedIPs) =>
            tasks[t].outcome \notin {"Blocked", "RateLimited"}

-----------------------------------------------------------------------------
(* Claims about the matchers *)

\* the matcher object with its `*` entries taken out
WithoutWildcards(attrs) == [key \in DOMAIN attrs |-> IF attrs[key] = "*" THEN Absent ELSE attrs[key]]

\* C16: a matcher value `*` matches every context value of its key, an absent
\* one included, in the subject, resource, action and environment matchers: each
\* matcher decides as it would without its `*` entries.
C16_WildcardMatchesAll ==
    lastCall.fn = "matchesPolicy" =>
        LET policy == lastCall.policy
            context == lastCall.context
        IN  /\ lastCall.subject =
                   matchesAttributes(WithoutWildcards(policy.subject), getUserAttributes(context.user))
            /\ lastCall.resource =
                   matchesAttributes(WithoutWildcards(policy.resource), context.resource)
            /\ policy.action = "*" => lastCall.action
            /\ lastCall.environment =
                   matchesEnvironment(WithoutWildcards(policy.environment), context.environment)

-----------------------------------------------------------------------------
(* Claims about the logger's patterns *)

\* C17: for a successful_login event the off_hours_access pattern alerts exactly
\* when the hour h of the event is before 8 or at or after 18; history,
\* threshold and window play no part.
C17_OffHoursFrom18 ==
    (/\ lastCall.fn = "checkPattern"
     /\ lastCall.pattern.pattern = "off_hours_access"
     /\ lastCall.event.event_type = "successful_login") =>
        LET h == getHours(lastCall.event.timestamp)
        IN  lastCall.result <=> (h < 8 \/ h >= 18)

\* the rows of a table that the filter of the pattern keeps for the event: the
\* events of the event's own source (its user for privilege_escalation) inside
\* the window
OwnEvents(table, pattern, event, clock) ==
    SelectSeq(table, LAMBDA e :
        PatternFilter(pattern, event, e, clock - pattern.timeWindow * MsPerMinute))

CountPatterns == {"failed_login_burst", "privilege_escalation", "suspicious_user_agent",
                  "rapid_requests"}

\* C29: for the count-over-window patterns, the answer of checkPattern for an
\* event of source x is the same over any two event tables that hold the same
\* events of x inside the window, whatever the other sources recorded.
C29_SourceIndependence ==
    (lastCall.fn = "checkPattern" /\ lastCall.pattern.pattern \in CountPatterns) =>
        \A table \in CrowdTables :
            OwnEvents(table, lastCall.pattern, lastCall.event, lastCall.clock)
                = OwnEvents(events, lastCall.pattern, lastCall.event, lastCall.clock)
            => checkPattern(lastCall.pattern, lastCall.event, lastCall.fetched,
                   RouteGETBody(table, FetchType(lastCall.pattern), FetchLimit(lastCall.pattern)),
                   lastCall.clock) = lastCall.result

\* a check for a source with as many rows inside the window as the pattern asks
\* for, the query answered, while another source has recorded the query's LIMIT
\* of rows after them
C29_Witness ==
    /\ lastCall.fn = "checkPattern"
    /\ lastCall.pattern.pattern = "failed_login_burst"
    /\ lastCall.fetched = "ok"
    /\ NeedsFetch(lastCall.pattern, lastCall.event)
    /\ Len(OwnEvents(events, lastCall.pattern, lastCall.event, lastCall.clock))
          >= lastCall.pattern.threshold
    /\ Len(SelectSeq(events, LAMBDA e : e.ip_address # lastCall.event.ip_address))
          >= FetchLimit(lastCall.pattern)

Frames(t) == {tasks[t].stack[i] : i \in 1..Len(tasks[t].stack)}

\* C23: analyzePatterns runs for an event only once the event is in the event
\* log; a logEvent call whose recording failed has returned to its caller with
\* no alert raised, no action executed and no event written.
C23_AnalysisAfterRecording ==
    \A t \in TaskIds :
        /\ \A f \in Frames(t) :
              (f.fn = "logEvent" /\ f.pc = "analyze") =>
                  \E i \in 1..Len(events) : events[i] = f.row
        /\ (tasks[t].kind = "log" /\ tasks[t].stack = <<>> /\ tasks[t].logged = NoRow) =>
              /\ Len(alerts) = tasks[t].alertsBefore
              /\ actionLog = <<>>

C23_Witness ==
    \E t \in TaskIds :
        /\ tasks[t].kind = "log"
        /\ tasks[t].pc = "done"
        /\ tasks[t].logged = NoRow
        /\ events # <<>>

RECURSIVE SumActions(_)
SumActions(as) == IF as = <<>> THEN 0 ELSE Len(Head(as).actions) + SumActions(Tail(as))

\* rows of source ip inside the window of rapid_requests
RapidCount(ip) ==
    Cardinality({i \in 1..Len(events) :
                    /\ events[i].ip_address = ip
                    /\ events[i].timestamp > now - patterns[4].timeWindow * MsPerMinute})

\* C28: logging one event terminates. The chain logEvent -> analyzePatterns ->
\* generateAlert -> executeAlertActions -> logEvent is never more than three
\* calls deep, a logEvent call records at most one event, the events derived
\* from an alert are at most one per action of the alert, logEvent raises no
\* alert of its own, and every call in progress returns; all this with
\* rapid_requests at its threshold for the source that block_ip logs again.
C28_ChainTerminates ==
    /\ [](\A t \in TaskIds : Len(tasks[t].stack) <= 3)
    /\ [](Len(events) <= Len(RapidTable) + calls + SumActions(alerts))
    /\ [](Len(alerts) <= starts)
    /\ \A t \in {1} : (tasks[t].pc = "logging") ~> (tasks[t].pc = "done")

\* the event of block_ip recorded, and its call returned, for a source that
\* has as many rows inside the window as rapid_requests asks for
C28_Witness ==
    /\ \E i \in 1..Len(events) :
          events[i].event_type = "ip_blocked" /\ events[i].ip_address = "10.0.0.5"
    /\ RapidCount("10.0.0.5") >= patterns[4].threshold
    /\ \E t \in TaskIds : tasks[t].kind = "alert" /\ tasks[t].pc = "done"

\* the alerts raised since task t began
AlertsOf(t) == {alerts[i].pattern : i \in (tasks[t].alertsBefore + 1)..Len(alerts)}

\* C19: once analyzePatterns has gone through an event, no pattern whose
\* historical query failed (response not ok, or an exception) has raised an
\* alert for it, and the patterns after it were still evaluated: each pattern
\* that alerts on the event alone has raised its alert.
C19_FailedQuerySkipsPatternOnly ==
    \A t \in TaskIds :
        (tasks[t].kind = "analyze" /\ tasks[t].pc = "done") =>
            /\ tasks[t].fetchFailed \cap AlertsOf(t) = {}
            /\ \A i \in 1..Len(patterns) :
                  AlertsUnfetched(patterns[i], tasks[t].analysed) =>
                      patterns[i].pattern \in AlertsOf(t)

\* the query of rapid_requests failed and off_hours_access, the pattern after
\* it, still raised its alert
C19_Witness ==
    \E t \in TaskIds :
        /\ tasks[t].kind = "analyze" /\ tasks[t].pc = "done"
        /\ "rapid_requests" \in tasks[t].fetchFailed
        /\ "off_hours_access" \in AlertsOf(t)

\* the actions of the alerts generated so far, alert after alert
RECURSIVE ActionsOf(_)
ActionsOf(list) ==
    IF list = <<>> THEN <<>> ELSE list[1].actions \o ActionsOf(Tail(list))

IsPrefix(a, b) == Len(a) <= Len(b) /\ a = SubSeq(b, 1, Len(a))

ActionsRun == [i \in 1..Len(actionLog) |-> actionLog[i].action]

\* C18: for every alert generated, every callback registered at that moment was
\* invoked, in registration order, also after a callback that threw; and the
\* actions of the alerts are executed in list order, all of them once the call
\* has returned, also when the event-log call of an earlier action failed.
C18_AllCallbacksAndActionsRun ==
    /\ Len(callbackLog) = Len(alerts)
    /\ \A a \in 1..Len(callbackLog) :
          /\ Len(callbackLog[a].invoked) = Len(callbackLog[a].registered)
          /\ \A i \in 1..Len(callbackLog[a].registered) :
                callbackLog[a].invoked[i].callback = callbackLog[a].registered[i].id
    /\ IsPrefix(ActionsRun, ActionsOf(alerts))
    /\ (\A t \in TaskIds : Free(t)) => ActionsRun = ActionsOf(alerts)

\* an alert was generated with a throwing callback registered before a second
\* one, its call has returned, and the event-log call of one of its actions failed
C18_Witness ==
    /\ \A t \in TaskIds : Free(t)
    /\ \E a \in 1..Len(callbackLog) :
          /\ Len(callbackLog[a].registered) = 2
          /\ callbackLog[a].registered[1].throws
          /\ Len(alerts[a].actions) = 3
    /\ Len(actionLog) >= 3
    /\ Len(events) < Cardinality({i \in 1..Len(actionLog) :
                                      ActionEvent(actionLog[i].action, alerts[1]).event_type # "-"})

-----------------------------------------------------------------------------
(* Claims about TOTP *)

StepOf(t) == (t \div 1000) \div PERIOD

Distance(a, b) == IF a >= b THEN a - b ELSE b - a

VerifyCall == lastCall.fn = "verifyTOTP"

AcceptsWithinWindow ==
    lastCall.result <=>
        /\ lastCall.token.secret = lastCall.secret
        /\ Distance(lastCall.token.time, StepOf(lastCall.clock)) <= lastCall.window

\* C14: at every verification instant the code generated for the timestamp 31
\* seconds later is rejected with window 0 and accepted with window 1, and
\* verifyTOTP accepts exactly the codes of the time steps within `window` steps
\* of the current step.
C14_WindowAtEveryInstant ==
    VerifyCall =>
        /\ (lastCall.of = lastCall.clock + 31000 /\ lastCall.token.secret = lastCall.secret) =>
                /\ lastCall.window = 0 => ~lastCall.result
                /\ lastCall.window = 1 => lastCall.result
        /\ AcceptsWithinWindow

\* C14 as the code has it: the code of the timestamp 31 seconds later is
\* rejected with window 0 at every instant, and accepted with window 1 when
\* the instant lies in the first 29 seconds of its step; verifyTOTP accepts
\* exactly the codes of the steps within `window` steps of the current one.
C14_WindowWithinStep ==
    VerifyCall =>
        /\ (lastCall.of = lastCall.clock + 31000 /\ lastCall.token.secret = lastCall.secret) =>
                /\ lastCall.window = 0 => ~lastCall.result
                /\ (lastCall.window = 1 /\ lastCall.clock % (PERIOD * 1000) < 29000) =>
                        lastCall.result
        /\ AcceptsWithinWindow

C14_Witness ==
    /\ VerifyCall
    /\ lastCall.clock = 1200000
    /\ lastCall.of = lastCall.clock + 31000
    /\ lastCall.token.secret = lastCall.secret
    /\ lastCall.window = 1
    /\ lastCall.result

\* C15: two generateTOTP calls with the same secret and timestamps of the same
\* 30-second step return the same code, whatever the clock reads at each call;
\* the timestamps of step 0, 0 among them, included.
C15_PureInSecretAndStep ==
    (/\ lastCall.fn = "generateTOTP"
     /\ lastCall.prev.fn = "generateTOTP"
     /\ lastCall.prev.secret = lastCall.secret
     /\ StepOf(lastCall.prev.timestamp) = StepOf(lastCall.timestamp)) =>
        lastCall.result = lastCall.prev.result

-----------------------------------------------------------------------------
(* Claims about the account lockout *)

PasswordFailureRows ==
    {i \in 1..Len(events) : /\ events[i].event_type = "login_failed"
                            /\ events[i].user_id = AliceId
                            /\ events[i].reason = "invalid_password"}

LoginSuccessRows ==
    {i \in 1..Len(events) : events[i].event_type = "login_success" /\ events[i].user_id = AliceId}

\* the failed password attempts recorded since the last successful login
ConsecutiveFailures ==
    Cardinality({i \in PasswordFailureRows : \A j \in LoginSuccessRows : j < i})

\* a request with a wrong password has its failed attempt counted in this step
\* the requests for which verifyPassword has been run on a wrong password
WrongVerified ==
    {t \in TaskIds : /\ tasks[t].kind = "login"
                     /\ tasks[t].login.email = "alice@example.org"
                     /\ tasks[t].login.password = "wrong-password"
                     /\ \/ tasks[t].pc \in {"increment", "failed"}
                        \/ tasks[t].pc = "done" /\ tasks[t].status = 401}

\* C30: whatever the interleaving of concurrent login requests for one account,
\* verifyPassword is run on at most 5 wrong passwords for it: requests that read
\* the account before it was locked do not together test more than that.
C30_ConcurrentLockout == Cardinality(WrongVerified) <= 5

CountsFailure == \E t \in TaskIds : tasks[t].pc = "increment" /\ tasks'[t].pc = "failed"

LoginDone(t) == tasks[t].kind = "login" /\ tasks[t].pc = "done"

C10_FailClosed ==
    \A t \in TaskIds : (MwDone(t) /\ tasks[t].threw) => tasks[t].outcome # "Admitted"

====
